---------------------------- MODULE Spec2Model ----------------------------
(***************************************************************************)
(* Connected-components kernels of AtPapadop/CC over a CSR graph:         *)
(*   - compute_connected_components      (sequential LP + frontier)       *)
(*   - compute_connected_components_bfs  (sequential BFS)                 *)
(*   - compute_connected_components_pthreads (thread pool, atomic labels) *)
(*   - compute_connected_components_omp / _cilk (parallel loop, atomic)   *)
(* Arrays are functions over 0..len-1, as in the C code.                   *)
(***************************************************************************)
EXTENDS Integers, Sequences, FiniteSets, TLC

\* ------------------------------------------------------------------ bounds
\* Largest vertex count of a graph handed to a sequential kernel.
MaxN == 4
\* Largest vertex count of a graph handed to a parallel kernel.
MaxPN == 4
\* Largest thread count (num_threads) of a parallel kernel.
MaxT == 2
\* Largest chunk_size parameter of a parallel kernel.
MaxChunk == 2
\* A chunk_size of the thread-pool kernel near 2^29, for which the work
\* counter of a round comes within a third of INT_MAX.
HugeChunk == 536870910

\* Runs of one kernel by the benchmark harness (its --runs option).
MaxRuns == 2

\* Largest row / column count on the size line of a Matrix Market file.
MaxDim == 3
\* Largest entry count (nz) on the size line.
MaxNz == 3

\* Largest length of a label vector handed to count_unique_labels.
MaxCountN == 4

\* ------------------------------------------------------------- CSR graphs
Min(S) == CHOOSE x \in S : \A y \in S : x <= y

\* Undirected simple graphs on n vertices: sets of pairs u < v.
EdgeSets(n) == SUBSET {p \in (0..n-1) \X (0..n-1) : p[1] < p[2]}

\* The records (u,v) left after symmetrize, lex-sort and dedup_edges with
\* drop_self_loops: both directions of every edge, ascending, no duplicates.
SortedEdges(n, E) ==
  LET D == E \cup {<<p[2], p[1]>> : p \in E}
      Key(p) == p[1] * (n + 1) + p[2]
      RECURSIVE Sort(_)
      Sort(S) == IF S = {} THEN <<>>
                 ELSE LET p == CHOOSE x \in S : \A y \in S : Key(x) <= Key(y)
                      IN <<p>> \o Sort(S \ {p})
  IN Sort(D)

\* The CSR layout of graph.c: row_ptr by counting and prefix sum, col_idx by
\* scattering the sorted records through a per-row head cursor.
BuildCSR(n, E) ==
  LET S == SortedEdges(n, E)
      m == Len(S)
      row_ptr == [i \in 0..n |-> Cardinality({r \in 1..m : S[r][1] < i})]
      col_idx == [k \in 0..m-1 |-> S[k + 1][2]]
  IN [n |-> n, m |-> m, row_ptr |-> row_ptr, col_idx |-> col_idx]

\* Every graph load_csr_from_mtx(path, 1, 1, &G) hands to a kernel, up to N.
CSRGraphs(N) == UNION {{BuildCSR(n, E) : E \in EdgeSets(n)} : n \in 0..N}

\* u's adjacency slice col_idx[row_ptr[u] .. row_ptr[u+1]-1].
Slice(g, u) == g.row_ptr[u] .. (g.row_ptr[u + 1] - 1)

Neighbors(g, u) == {g.col_idx[j] : j \in Slice(g, u)}

\* What an array of n ints holds before its first write (fresh from malloc /
\* posix_memalign) or after free(): some value below and some value above
\* every label.
GarbageArrays(n) == {[i \in 0..n-1 |-> -1], [i \in 0..n-1 |-> n]}

\* memset(p, c, n)
Fill(n, c) == [i \in 0..n-1 |-> c]

VARIABLES
  G,                \* the CSR graph of the call (read-only)
  \* --- compute_connected_components (sequential LP + frontier)
  seq_pc,           \* position in the kernel
  seq_mem,          \* contents of the four buffers, by buffer name
  seq_labels,       \* the kernel's pointer `labels` (a buffer name)
  seq_new_labels,   \* the kernel's pointer `new_labels`
  seq_active,       \* the kernel's pointer `active`
  seq_next_active,  \* the kernel's pointer `next_active`
  seq_changed,      \* `changed`
  seq_u,            \* loop index `u`
  seq_rounds,       \* completed rounds (pointer swaps)
  seq_heap,         \* per buffer: "caller", "none", "live" or "freed"
  seq_frees         \* per buffer: number of free() calls made on it

seqVars == <<seq_pc, seq_mem, seq_labels, seq_new_labels, seq_active,
             seq_next_active, seq_changed, seq_u, seq_rounds, seq_heap, seq_frees>>

VARIABLES
  \* --- compute_connected_components_bfs
  bfs_pc,           \* position in the kernel
  bfs_labels,       \* the caller's label array
  bfs_queue,        \* the n-entry queue
  bfs_front,        \* `front`
  bfs_back,         \* `back`
  bfs_stc,          \* outer loop index `stc`
  bfs_current_label,\* `current_label`
  bfs_heap,         \* the queue buffer: "none", "live" or "freed"
  bfs_frees         \* number of free() calls made on the queue

bfsVars == <<bfs_pc, bfs_labels, bfs_queue, bfs_front, bfs_back, bfs_stc,
             bfs_current_label, bfs_heap, bfs_frees>>

VARIABLES
  \* --- the parallel LP kernels (atomic label array)
  par_pc,           \* the kernel call: "idle", "entry", "running", "returned"
                    \* ("fentry", "frunning", "freturned": the frontier pool;
                    \* "oentry", "olist", "oloop", "ocopy", "oreturned": the
                    \* OpenMP frontier kernel)
  num_threads,      \* parameter num_threads (pool) / number of loop workers
  chunk_size,       \* parameter chunk_size
  atomic_labels,    \* the atomic label array (<<>> while not allocated)
  changed,          \* the shared change flag (pool: atomic_int changed)
  next_vertex,      \* the shared dynamic work index
  loop_pending,     \* loop kernels: chunk starts of the round not yet handed out
  barrier_count,    \* threads blocked in pthread_barrier_wait
  thr,              \* per worker: pc, waiting and the locals of its frame
  par_labels,       \* the caller's label array
  round_lowered,    \* history: some CAS lowered a label in the current round
  relaxed,          \* history: per vertex, relaxations begun in the current round
  par_rounds        \* history: rounds completed

parVars == <<par_pc, num_threads, chunk_size, atomic_labels, changed, next_vertex,
             loop_pending, barrier_count, thr, par_labels, round_lowered, relaxed, par_rounds>>

VARIABLES
  harness           \* the harness's run loop: runs completed by each sequential
                    \* kernel and the label array left by its first run

VARIABLES
  ld,               \* load_csr_from_mtx: position, parameters, locals, *out
  cu                \* count_unique_labels: position, parameters, locals

VARIABLES
  fr,               \* the frontier pool kernel (lp_worker_dynamic): the four
                    \* buffers, the four shared pointers, the done flag
  trace,            \* history: for each completed round of the sequential
                    \* kernel and of the frontier pool kernel, the label
                    \* buffer the round wrote and the next frontier it built;
                    \* the vertices the BFS kernel has enqueued in this call;
                    \* for a loop kernel run with a chunk of 1, the worker
                    \* each vertex was handed to in this round and in the
                    \* round before
  af                \* the Afforest kernel: the atomic parent array, the
                    \* caller's label array, and which blocks are allocated

\* The Afforest kernel is not called.
AfIdle == [parent |-> <<>>, labels |-> <<>>, heap |-> <<>>]

\* The frontier pool kernel is not called.
FrontIdle ==
  [mem |-> <<>>, labels |-> "caller", new_labels |-> "aux", active |-> "fa",
   next_active |-> "fb", done |-> 0, heap |-> <<>>]

\* No round has been completed.
TraceInit == [seq |-> <<>>, pool |-> <<>>, enq |-> <<>>, owner |-> <<>>, owner_prev |-> <<>>]

\* What the history keeps of a round: the label buffer it wrote and the
\* frontier it built for the next round.
RoundRecord(written, built) == [labels |-> written, frontier |-> built]

\* Before the first run.
HarnessInit == [seq_runs |-> 0, bfs_runs |-> 0, seq_first |-> <<>>, bfs_first |-> <<>>]

vars == <<G, seqVars, bfsVars, parVars, harness, ld, cu, fr, trace, af>>

\* ------------------------------------------------------ load_csr_from_mtx
\* Mutant of ZeroGraph: *out keeps what the caller's struct held.
StaleGraph == [n |-> 1, m |-> 1, row_ptr |-> <<0, 1>>, col_idx |-> <<0>>]

\* memset(out, 0, sizeof(*out)): n = 0, m = 0, both pointers null (a null
\* pointer has no entries; out_set names the pointers of *out that are set).
ZeroGraph == [n |-> 0, m |-> 0, row_ptr |-> <<>>, col_idx |-> <<>>]

\* The builder's frame before the call, for given parameters. *out is the
\* caller's uninitialised struct; live is the set of heap blocks the call
\* holds, file_open tells whether f is open. History: ingested is E as the
\* ingest loop left it, skipped counts the records the loop passed over, last
\* is the 0-based record (i, j) of the loop's latest iteration.
LoadFrame(symmetrize, drop_self_loops) ==
  [pc |-> "call", ret |-> -1,
   symmetrize |-> symmetrize, drop_self_loops |-> drop_self_loops,
   symmetric_in_file |-> FALSE,
   M |-> 0, N |-> 0, nz |-> 0, n |-> 0, cap |-> 0, k |-> 0,
   E |-> <<>>, m |-> 0, row_ptr |-> <<>>, col_idx |-> <<>>,
   out |-> "uninitialised", out_set |-> {}, live |-> {}, file_open |-> FALSE,
   ingested |-> <<>>, skipped |-> 0, last |-> <<>>]

\* The frame of count_unique_labels(labels, n) before the call; labels_in
\* is a history copy of the vector as it was handed over.
CountFrame(labels, n) ==
  [pc |-> "call", labels |-> labels, labels_in |-> labels, n |-> n,
   unique_flags |-> <<>>, unique_count |-> 0, i |-> 0, ret |-> -1, live |-> {}]

\* count_unique_labels is not called.
CountIdle == [CountFrame(<<>>, 0) EXCEPT !.pc = "idle"]

\* The builder is not called.
LoadIdle == [LoadFrame(FALSE, FALSE) EXCEPT !.pc = "idle"]

\* ------------------------------------------ compute_connected_components
SeqBuffers == {"caller", "aux", "fa", "fb"}

\* The state before the call: the caller's array is allocated and not yet
\* written, the kernel has allocated nothing.
SeqInit ==
  /\ seq_pc = "entry"
  /\ \E c \in GarbageArrays(G.n) :
       seq_mem = [b \in SeqBuffers |-> IF b = "caller" THEN c ELSE Fill(G.n, 0)]
  /\ seq_labels = "caller"
  /\ seq_new_labels = "aux"
  /\ seq_active = "fa"
  /\ seq_next_active = "fb"
  /\ seq_changed = 0
  /\ seq_u = 0
  /\ seq_rounds = 0
  /\ seq_heap = [b \in SeqBuffers |-> IF b = "caller" THEN "caller" ELSE "none"]
  /\ seq_frees = [b \in SeqBuffers |-> 0]

\* Mutant of ScanMin: the scan stops one neighbour short (j + 1 < hi).
RECURSIVE ScanMinSkipLast(_, _, _, _, _)
ScanMinSkipLast(g, lab, j, hi, new_label) ==
  IF j + 1 >= hi THEN new_label
  ELSE ScanMinSkipLast(g, lab, j + 1, hi,
               IF lab[g.col_idx[j]] < new_label THEN lab[g.col_idx[j]] ELSE new_label)

\* The neighbour scan: new_label after visiting col_idx[j..hi-1].
RECURSIVE ScanMin(_, _, _, _, _)
ScanMin(g, lab, j, hi, new_label) ==
  IF j >= hi THEN new_label
  ELSE ScanMin(g, lab, j + 1, hi,
               IF lab[g.col_idx[j]] < new_label THEN lab[g.col_idx[j]] ELSE new_label)

\* Mutant of Activate: nothing is put on the next frontier.
ActivateNone(g, bits, u) == bits

\* Mutant of Activate: only u itself is put on the next frontier.
ActivateSelfOnly(g, bits, u) ==
  [i \in DOMAIN bits |-> IF i = u THEN 1 ELSE bits[i]]

\* next_active after `next_active[u] = 1` and one store per neighbour.
Activate(g, bits, u) ==
  [i \in DOMAIN bits |-> IF i = u \/ i \in Neighbors(g, u) THEN 1 ELSE bits[i]]

\* Mutant of SeqSwapLabels: the two label pointers are left as they are.
SeqSwapLabelsKept == <<seq_labels, seq_new_labels>>

\* The round ends with the two pointer swaps and the memset.
SeqSwapLabels == <<seq_new_labels, seq_labels>>

\* free(p): the buffer is released; what it holds afterwards is indeterminate.
FreedContents(g, old) == {old} \cup GarbageArrays(g.n)

\* Mutant of AllActive: no vertex is active in the first round.
NoneActive(n) == Fill(n, 0)

\* memset(active, 1, n)
AllActive(n) == Fill(n, 1)

\* Initialise labels, allocate new_labels and the two frontiers, memset them.
SeqEnter ==
  /\ seq_pc = "entry"
  /\ \E a \in GarbageArrays(G.n) :
       seq_mem' = [b \in SeqBuffers |->
                     CASE b = "caller" -> [i \in 0..G.n-1 |-> i]
                       [] b = "aux"    -> a
                       [] b = "fa"     -> AllActive(G.n)
                       [] b = "fb"     -> Fill(G.n, 0)]
  /\ seq_heap' = [b \in SeqBuffers |-> IF b = "caller" THEN "caller" ELSE "live"]
  /\ seq_changed' = 1
  /\ seq_pc' = "while"
  /\ UNCHANGED <<G, af, fr, trace, cu, ld, harness, bfsVars, parVars, seq_labels, seq_new_labels, seq_active, seq_next_active,
                 seq_u, seq_rounds, seq_frees>>

\* while (changed) { changed = 0; for (u = 0; ...
SeqWhile ==
  /\ seq_pc = "while"
  /\ IF seq_changed # 0
       THEN /\ seq_changed' = 0
            /\ seq_u' = 0
            /\ seq_pc' = "for"
       ELSE /\ seq_pc' = "exit"
            /\ UNCHANGED <<seq_changed, seq_u>>
  /\ UNCHANGED <<G, af, fr, trace, cu, ld, harness, bfsVars, parVars, seq_mem, seq_labels, seq_new_labels, seq_active,
                 seq_next_active, seq_rounds, seq_heap, seq_frees>>

\* One iteration of the vertex loop.
SeqRelax ==
  /\ seq_pc = "for"
  /\ seq_u < G.n
  /\ LET u == seq_u
         lab == seq_mem[seq_labels]
         old_label == lab[u]
         new_label == ScanMin(G, lab, G.row_ptr[u], G.row_ptr[u + 1], old_label)
     IN IF seq_mem[seq_active][u] = 0
          THEN UNCHANGED <<seq_mem, seq_changed>>
          ELSE /\ seq_mem' =
                    [seq_mem EXCEPT
                       ![seq_new_labels] = [@ EXCEPT ![u] = new_label],
                       ![seq_next_active] =
                          IF new_label < old_label THEN Activate(G, @, u) ELSE @]
               /\ seq_changed' = IF new_label < old_label THEN 1 ELSE seq_changed
  /\ seq_u' = seq_u + 1
  /\ UNCHANGED <<G, af, fr, trace, cu, ld, harness, bfsVars, parVars, seq_pc, seq_labels, seq_new_labels, seq_active, seq_next_active,
                 seq_rounds, seq_heap, seq_frees>>

\* Mutant of ClearFrontier: the bitmap is left as the round found it.
KeepFrontier(bits) == bits

\* memset(next_active, 0, n)
ClearFrontier(bits) == [i \in DOMAIN bits |-> 0]

\* Swap label and frontier arrays, clear the next frontier.
SeqSwap ==
  /\ seq_pc = "for"
  /\ seq_u >= G.n
  /\ seq_labels' = SeqSwapLabels[1]
  /\ seq_new_labels' = SeqSwapLabels[2]
  /\ seq_active' = seq_next_active
  /\ seq_next_active' = seq_active
  /\ seq_mem' = [seq_mem EXCEPT ![seq_active] = ClearFrontier(@)]
  /\ seq_rounds' = seq_rounds + 1
  /\ seq_pc' = "while"
  /\ trace' = [trace EXCEPT !.seq = Append(@, RoundRecord(seq_mem[seq_new_labels],
                                                          seq_mem[seq_next_active]))]
  /\ UNCHANGED <<G, af, fr, cu, ld, harness, bfsVars, parVars, seq_changed, seq_u, seq_heap, seq_frees>>

\* The buffers the kernel frees before it returns.
SeqFreed == {seq_new_labels, seq_active, seq_next_active}

\* free(new_labels); free(active); free(next_active); return.
SeqReturn ==
  /\ seq_pc = "exit"
  /\ seq_heap' = [b \in SeqBuffers |-> IF b \in SeqFreed THEN "freed" ELSE seq_heap[b]]
  /\ seq_frees' = [b \in SeqBuffers |->
                     IF b \in SeqFreed THEN seq_frees[b] + 1 ELSE seq_frees[b]]
  /\ \E cl \in FreedContents(G, seq_mem[seq_new_labels]),
        ca \in FreedContents(G, seq_mem[seq_active]),
        cn \in FreedContents(G, seq_mem[seq_next_active]) :
       seq_mem' = [b \in SeqBuffers |->
                     CASE b = seq_new_labels  -> cl
                       [] b = seq_active      -> ca
                       [] b = seq_next_active -> cn
                       [] OTHER               -> seq_mem[b]]
  /\ seq_pc' = "done"
  /\ harness' = [harness EXCEPT
                   !.seq_runs = @ + 1,
                   !.seq_first = IF harness.seq_runs = 0 THEN seq_mem'["caller"] ELSE @]
  /\ UNCHANGED <<G, af, fr, trace, cu, ld, bfsVars, parVars, seq_labels, seq_new_labels, seq_active, seq_next_active,
                 seq_changed, seq_u, seq_rounds>>

\* -------------------------------------- compute_connected_components_bfs
\* The state before the call: the caller's array is allocated and not yet
\* written, the queue is not allocated.
BfsInit ==
  /\ bfs_pc = "entry"
  /\ bfs_labels \in GarbageArrays(G.n)
  /\ bfs_queue = Fill(G.n, 0)
  /\ bfs_front = 0
  /\ bfs_back = 0
  /\ bfs_stc = 0
  /\ bfs_current_label = 0
  /\ bfs_heap = "none"
  /\ bfs_frees = 0

\* labels[i] = -1 for all i; allocate the queue; current_label = 0.
BfsEnter ==
  /\ bfs_pc = "entry"
  /\ bfs_labels' = Fill(G.n, -1)
  /\ bfs_queue' \in GarbageArrays(G.n)
  /\ bfs_heap' = "live"
  /\ bfs_current_label' = 0
  /\ bfs_stc' = 0
  /\ bfs_pc' = "for"
  /\ UNCHANGED <<G, af, fr, trace, cu, ld, harness, seqVars, parVars, bfs_front, bfs_back, bfs_frees>>

\* Mutant of BfsLabel: a component is named after its source vertex.
BfsLabelIsSource == bfs_stc

\* The label a newly discovered vertex gets.
BfsLabel == bfs_current_label

\* Mutant of Unvisited: every vertex passes for unvisited.
UnvisitedAlways(label) == TRUE

\* labels[v] == -1
Unvisited(label) == label = -1

\* for (stc ...): skip a visited vertex, or start a new component at stc.
BfsFor ==
  /\ bfs_pc = "for"
  /\ bfs_stc < G.n
  /\ IF ~Unvisited(bfs_labels[bfs_stc])
       THEN /\ bfs_stc' = bfs_stc + 1
            /\ UNCHANGED <<bfs_pc, bfs_labels, bfs_queue, bfs_front, bfs_back, trace>>
       ELSE /\ bfs_labels' = [bfs_labels EXCEPT ![bfs_stc] = BfsLabel]
            /\ bfs_front' = 0
            /\ bfs_back' = 1
            /\ bfs_queue' = [bfs_queue EXCEPT ![0] = bfs_stc]
            /\ bfs_pc' = "while"
            /\ trace' = [trace EXCEPT !.enq = Append(@, bfs_stc)]
            /\ UNCHANGED bfs_stc
  /\ UNCHANGED <<G, af, fr, cu, ld, harness, seqVars, parVars, bfs_current_label, bfs_heap, bfs_frees>>

\* The scan of u's adjacency slice from position j: every unvisited
\* neighbour is labelled and enqueued. s = [labels, queue, back].
RECURSIVE BfsScan(_, _, _, _)
BfsScan(g, s, j, hi) ==
  IF j >= hi THEN s
  ELSE LET v == g.col_idx[j]
       IN IF Unvisited(s.labels[v])
            THEN BfsScan(g, [labels |-> [s.labels EXCEPT ![v] = BfsLabel],
                             queue  |-> [s.queue EXCEPT ![s.back] = v],
                             back   |-> s.back + 1], j + 1, hi)
            ELSE BfsScan(g, s, j + 1, hi)

\* The vertices stored into queue[from..to-1], in the order of the stores.
Enqueued(queue, from, to) == [i \in 1..(to - from) |-> queue[from + i - 1]]

\* while (front < back): dequeue u and scan its neighbours.
BfsVisit ==
  /\ bfs_pc = "while"
  /\ bfs_front < bfs_back
  /\ LET u == bfs_queue[bfs_front]
         s == BfsScan(G, [labels |-> bfs_labels, queue |-> bfs_queue, back |-> bfs_back],
                      G.row_ptr[u], G.row_ptr[u + 1])
     IN /\ bfs_labels' = s.labels
        /\ bfs_queue' = s.queue
        /\ bfs_back' = s.back
        /\ trace' = [trace EXCEPT !.enq = @ \o Enqueued(s.queue, bfs_back, s.back)]
  /\ bfs_front' = bfs_front + 1
  /\ UNCHANGED <<G, af, fr, cu, ld, harness, seqVars, parVars, bfs_pc, bfs_stc, bfs_current_label, bfs_heap, bfs_frees>>

\* Mutant of NextLabel: the counter is left as it is.
SameLabel(c) == c

\* current_label++
NextLabel(c) == c + 1

\* The queue is empty: current_label++ and on to the next stc.
BfsComponentDone ==
  /\ bfs_pc = "while"
  /\ bfs_front >= bfs_back
  /\ bfs_current_label' = NextLabel(bfs_current_label)
  /\ bfs_stc' = bfs_stc + 1
  /\ bfs_pc' = "for"
  /\ UNCHANGED <<G, af, fr, trace, cu, ld, harness, seqVars, parVars, bfs_labels, bfs_queue, bfs_front, bfs_back, bfs_heap, bfs_frees>>

\* The outer loop ends and the function returns (no free(queue)).
BfsReturn ==
  /\ bfs_pc = "for"
  /\ bfs_stc >= G.n
  /\ bfs_pc' = "done"
  /\ harness' = [harness EXCEPT
                   !.bfs_runs = @ + 1,
                   !.bfs_first = IF harness.bfs_runs = 0 THEN bfs_labels ELSE @]
  /\ UNCHANGED <<G, af, fr, trace, cu, ld, seqVars, parVars, bfs_labels, bfs_queue, bfs_front, bfs_back, bfs_stc,
                 bfs_current_label, bfs_heap, bfs_frees>>

\* ------------------------------------------------- parallel LP kernels
\* No parallel kernel is called.
ParIdle ==
  /\ par_pc = "idle"
  /\ num_threads = 0
  /\ chunk_size = 0
  /\ atomic_labels = <<>>
  /\ changed = 0
  /\ next_vertex = 0
  /\ loop_pending = {}
  /\ barrier_count = 0
  /\ thr = <<>>
  /\ par_labels = <<>>
  /\ round_lowered = FALSE
  /\ relaxed = <<>>
  /\ par_rounds = 0

\* No sequential kernel is called.
SeqBfsIdle ==
  /\ bfs_pc = "idle"
  /\ bfs_labels = <<>>
  /\ bfs_queue = <<>>
  /\ bfs_front = 0
  /\ bfs_back = 0
  /\ bfs_stc = 0
  /\ bfs_current_label = 0
  /\ bfs_heap = "none"
  /\ bfs_frees = 0
  /\ seq_pc = "idle"
  /\ seq_mem = <<>>
  /\ seq_labels = "caller"
  /\ seq_new_labels = "aux"
  /\ seq_active = "fa"
  /\ seq_next_active = "fb"
  /\ seq_changed = 0
  /\ seq_u = 0
  /\ seq_rounds = 0
  /\ seq_heap = <<>>
  /\ seq_frees = <<>>

Threads == 0 .. (num_threads - 1)

\* The largest value of an int (atomic_int next_vertex, int start).
INT_MAX == 2147483647

\* Mutant of WrapAdd: the counter is 31 bits wide.
WrapAddNarrow(x, c) ==
  IF x > 1073741823 - c THEN (x - 1073741823 - 1) + (c - 1073741823 - 1) ELSE x + c

\* The value atomic_fetch_add leaves in an atomic_int that held x, for
\* c >= 0: x + c in two's complement, which wraps to x + c - 2^32 when
\* x + c > INT_MAX.
WrapAdd(x, c) ==
  IF x > INT_MAX - c THEN (x - INT_MAX - 1) + (c - INT_MAX - 1) ELSE x + c

chunking_enabled == chunk_size # 1

\* Mutant of StaticBlockOf: the quotient is rounded down.
StaticBlockFloor(n, T) == n \div T

\* ((int64_t)n + num_threads - 1) / num_threads
StaticBlockOf(n, T) == (n + T - 1) \div T

\* (n + num_threads - 1) / num_threads in static mode, else 0.
static_block ==
  IF ~chunking_enabled /\ num_threads > 0
    THEN StaticBlockOf(G.n, num_threads)
    ELSE 0

ClipN(x) == IF x > G.n THEN G.n ELSE x

block_start(t) == IF chunking_enabled THEN 0 ELSE ClipN(t * static_block)

block_end(t) == IF chunking_enabled THEN 0 ELSE ClipN(t * static_block + static_block)

\* A worker's frame before its first round.
NewFrame ==
  [pc |-> "reset", waiting |-> FALSE, u |-> 0, end |-> 0, old_label |-> 0,
   new_label |-> 0, j |-> 0, current |-> 0, local_changed |-> 0]

SetThr(t, w) == thr' = [thr EXCEPT ![t] = w]

\* --- relax_vertex_label, one shared-memory access per step ---------------
\* Mutant of LowerOf: the comparison is reversed.
LowerOfReversed(new_label, neighbor_label) ==
  IF neighbor_label > new_label THEN neighbor_label ELSE new_label

\* if (neighbor_label < new_label) new_label = neighbor_label;
LowerOf(new_label, neighbor_label) ==
  IF neighbor_label < new_label THEN neighbor_label ELSE new_label

\* Mutant of CasWanted: the store is attempted whatever the value seen.
CasAlways(current, new_label) == TRUE

\* The CAS loops' first conjunct: current > new_label.
CasWanted(current, new_label) == current > new_label

\* relax_vertex_label returns 1 iff new_label < old_label.
RelaxResult(new_label, old_label) == new_label < old_label

\* The call for vertex w.u returns ret: local_changed |= ret and the vertex
\* loop moves on; after the last vertex of the chunk the worker asks for work.
Finish(w, ret) ==
  [w EXCEPT !.pc = IF w.u + 1 < w.end THEN "relax" ELSE "work",
            !.u = w.u + 1,
            !.local_changed = IF ret THEN 1 ELSE @,
            !.old_label = 0, !.new_label = 0, !.j = 0, !.current = 0]

\* The push loop moves to the next neighbour, or the call returns 1.
Advance(w) ==
  IF w.j + 1 < G.row_ptr[w.u + 1]
    THEN [w EXCEPT !.pc = "push", !.j = w.j + 1, !.current = 0]
    ELSE Finish(w, TRUE)

\* old_label = load(labels[u]); new_label = old_label.
RelaxLoad(t) ==
  LET w == thr[t] IN
  /\ par_pc = "running"
  /\ w.pc = "relax" /\ ~w.waiting
  /\ LET old == atomic_labels[w.u] IN
     IF G.row_ptr[w.u] >= G.row_ptr[w.u + 1]
       THEN SetThr(t, Finish(w, RelaxResult(old, old)))
       ELSE SetThr(t, [w EXCEPT !.pc = "scan", !.old_label = old,
                                !.new_label = old, !.j = G.row_ptr[w.u]])
  /\ relaxed' = [relaxed EXCEPT ![thr[t].u] = @ + 1]
  /\ UNCHANGED <<G, af, fr, trace, cu, ld, harness, seqVars, bfsVars, loop_pending, par_pc, num_threads, chunk_size, atomic_labels, changed, next_vertex,
                 barrier_count, par_labels, round_lowered, par_rounds>>

\* One iteration of the scan loop: load a neighbour's label, keep the lower.
RelaxScan(t) ==
  LET w == thr[t] IN
  /\ par_pc = "running"
  /\ w.pc = "scan" /\ ~w.waiting
  /\ LET new == LowerOf(w.new_label, atomic_labels[G.col_idx[w.j]]) IN
     IF w.j + 1 < G.row_ptr[w.u + 1]
       THEN SetThr(t, [w EXCEPT !.new_label = new, !.j = w.j + 1])
       ELSE IF RelaxResult(new, w.old_label)
         THEN SetThr(t, [w EXCEPT !.pc = "cas", !.new_label = new,
                                  !.current = w.old_label, !.j = G.row_ptr[w.u]])
         ELSE SetThr(t, Finish(w, FALSE))
  /\ UNCHANGED <<G, af, fr, trace, cu, ld, harness, seqVars, bfsVars, relaxed, loop_pending, par_pc, num_threads, chunk_size, atomic_labels, changed, next_vertex,
                 barrier_count, par_labels, round_lowered, par_rounds>>

\* One compare-exchange on labels[u]. (A spurious failure of the weak CAS
\* leaves every variable as it is: a stuttering step.)
RelaxCas(t) ==
  LET w == thr[t] IN
  /\ par_pc = "running"
  /\ w.pc = "cas" /\ ~w.waiting
  /\ IF atomic_labels[w.u] = w.current
       THEN /\ atomic_labels' = [atomic_labels EXCEPT ![w.u] = w.new_label]
            /\ round_lowered' = TRUE
            /\ SetThr(t, [w EXCEPT !.pc = "push", !.current = 0])
       ELSE /\ UNCHANGED <<atomic_labels, round_lowered>>
            /\ IF CasWanted(atomic_labels[w.u], w.new_label)
                 THEN SetThr(t, [w EXCEPT !.current = atomic_labels[w.u]])
                 ELSE SetThr(t, [w EXCEPT !.pc = "push", !.current = 0])
  /\ UNCHANGED <<G, af, fr, trace, cu, ld, harness, seqVars, bfsVars, relaxed, loop_pending, par_pc, num_threads, chunk_size, changed, next_vertex,
                 barrier_count, par_labels, par_rounds>>

\* neighbor = load(labels[v]) in the push loop.
RelaxPush(t) ==
  LET w == thr[t] IN
  /\ par_pc = "running"
  /\ w.pc = "push" /\ ~w.waiting
  /\ LET neighbor == atomic_labels[G.col_idx[w.j]] IN
     IF CasWanted(neighbor, w.new_label)
       THEN SetThr(t, [w EXCEPT !.pc = "push_cas", !.current = neighbor])
       ELSE SetThr(t, Advance(w))
  /\ UNCHANGED <<G, af, fr, trace, cu, ld, harness, seqVars, bfsVars, relaxed, loop_pending, par_pc, num_threads, chunk_size, atomic_labels, changed, next_vertex,
                 barrier_count, par_labels, round_lowered, par_rounds>>

\* One compare-exchange on labels[v] in the push loop.
RelaxPushCas(t) ==
  LET w == thr[t]
      v == G.col_idx[w.j] IN
  /\ par_pc = "running"
  /\ w.pc = "push_cas" /\ ~w.waiting
  /\ IF atomic_labels[v] = w.current
       THEN /\ atomic_labels' = [atomic_labels EXCEPT ![v] = w.new_label]
            /\ round_lowered' = TRUE
            /\ SetThr(t, Advance(w))
       ELSE /\ UNCHANGED <<atomic_labels, round_lowered>>
            /\ IF CasWanted(atomic_labels[v], w.new_label)
                 THEN SetThr(t, [w EXCEPT !.current = atomic_labels[v]])
                 ELSE SetThr(t, Advance(w))
  /\ UNCHANGED <<G, af, fr, trace, cu, ld, harness, seqVars, bfsVars, relaxed, loop_pending, par_pc, num_threads, chunk_size, changed, next_vertex,
                 barrier_count, par_labels, par_rounds>>

\* --- compute_connected_components_pthreads / lp_worker_full_async --------
\* The call parameters: a graph, num_threads >= 1 and chunk_size >= 1.
PoolInit ==
  /\ G \in CSRGraphs(MaxPN)
  /\ harness = HarnessInit
  /\ fr = FrontIdle
  /\ trace = TraceInit
  /\ af = AfIdle
  /\ ld = LoadIdle
  /\ cu = CountIdle
  /\ SeqBfsIdle
  /\ par_pc = "entry"
  /\ num_threads \in 1..MaxT
  /\ chunk_size \in (1..MaxChunk) \cup {HugeChunk}
  /\ atomic_labels = <<>>
  /\ changed = 0
  /\ next_vertex = 0
  /\ loop_pending = {}
  /\ barrier_count = 0
  /\ thr = <<>>
  /\ par_labels \in GarbageArrays(G.n)
  /\ round_lowered = FALSE
  /\ relaxed = <<>>
  /\ par_rounds = 0

\* Mutant of InitialLabels: every label starts at 0.
InitialLabelsZero(n) == [i \in 0..n-1 |-> 0]

\* for (i = 0; i < n; i++) atomic_init(&atomic_labels[i], i);
InitialLabels(n) == [i \in 0..n-1 |-> i]

\* Allocate and initialise atomic_labels, changed = 1, next_vertex = 0,
\* initialise the barrier, create the workers.
PoolEnter ==
  /\ par_pc = "entry"
  /\ par_pc' = "running"
  /\ atomic_labels' = InitialLabels(G.n)
  /\ changed' = 1
  /\ next_vertex' = 0
  /\ barrier_count' = 0
  /\ thr' = [t \in Threads |-> NewFrame]
  /\ relaxed' = [i \in 0..G.n-1 |-> 0]
  /\ UNCHANGED <<G, af, fr, trace, cu, ld, harness, seqVars, bfsVars, loop_pending, num_threads, chunk_size, par_labels, round_lowered, par_rounds>>

\* Mutant of ResetsWork: nobody resets the work index.
ResetsWorkNever(t) == FALSE

\* if (chunking_enabled && args->thread_id == 0)
ResetsWork(t) == chunking_enabled /\ t = 0

\* Top of the round loop: local_changed = 0; the leader resets next_vertex
\* in dynamic mode.
PoolRoundBegin(t) ==
  LET w == thr[t] IN
  /\ par_pc = "running"
  /\ w.pc = "reset" /\ ~w.waiting
  /\ next_vertex' = IF ResetsWork(t) THEN 0 ELSE next_vertex
  /\ SetThr(t, [w EXCEPT !.pc = "bar1", !.local_changed = 0,
                         !.u = block_start(t), !.end = block_end(t)])
  /\ UNCHANGED <<G, af, fr, trace, cu, ld, harness, seqVars, bfsVars, relaxed, loop_pending, par_pc, num_threads, chunk_size, atomic_labels, changed,
                 barrier_count, par_labels, round_lowered, par_rounds>>

\* Where a worker continues after each of the three barriers of a round.
AfterBarrier(pc) ==
  CASE pc = "bar1" -> "work"
    [] pc = "bar2" -> "check"
    [] pc = "bar3" -> "test"

\* Mutant of BarrierFull: the barrier never holds a thread back.
BarrierFullAlways(arrived) == TRUE

\* Mutant of BarrierFull: the barrier opens one arrival early.
BarrierFullOneFewer(arrived) == arrived + 1 >= num_threads

\* Mutant of BarrierFull: the barrier expects one thread more than exist.
BarrierFullOneMore(arrived) == arrived = num_threads + 1

\* pthread_barrier_init(&barrier, NULL, num_threads): the barrier opens
\* when num_threads threads have arrived.
BarrierFull(arrived) == arrived = num_threads

\* pthread_barrier_wait: the caller blocks until num_threads threads have
\* called; the last caller releases them all.
PoolBarrierWait(t) ==
  LET w == thr[t] IN
  /\ par_pc = "running"
  /\ w.pc \in {"bar1", "bar2", "bar3"} /\ ~w.waiting
  /\ IF BarrierFull(barrier_count + 1)
       THEN /\ barrier_count' = 0
            /\ thr' = [x \in Threads |->
                         IF x = t THEN [w EXCEPT !.pc = AfterBarrier(w.pc)]
                         ELSE [thr[x] EXCEPT !.waiting = FALSE]]
       ELSE /\ barrier_count' = barrier_count + 1
            /\ SetThr(t, [w EXCEPT !.pc = AfterBarrier(w.pc), !.waiting = TRUE])
  /\ UNCHANGED <<G, af, fr, trace, cu, ld, harness, seqVars, bfsVars, relaxed, loop_pending, par_pc, num_threads, chunk_size, atomic_labels, changed, next_vertex,
                 par_labels, round_lowered, par_rounds>>

\* Dynamic mode: start = fetch_add(next_vertex, chunk); leave the work loop
\* when start >= n, else relax [start, min(start + chunk, n)).
PoolFetch(t) ==
  LET w == thr[t]
      start == next_vertex IN
  /\ par_pc = "running"
  /\ chunking_enabled
  /\ w.pc = "work" /\ ~w.waiting
  /\ next_vertex' = WrapAdd(next_vertex, chunk_size)
  /\ IF start >= G.n
       THEN SetThr(t, [w EXCEPT !.pc = "mark", !.u = 0, !.end = 0])
       ELSE SetThr(t, [w EXCEPT !.pc = "relax", !.u = start,
                                !.end = ClipN(start + chunk_size)])
  /\ UNCHANGED <<G, af, fr, trace, cu, ld, harness, seqVars, bfsVars, relaxed, loop_pending, par_pc, num_threads, chunk_size, atomic_labels, changed,
                 barrier_count, par_labels, round_lowered, par_rounds>>

\* Static mode: for (u = block_start; u < block_end; u++).
PoolStatic(t) ==
  LET w == thr[t] IN
  /\ par_pc = "running"
  /\ ~chunking_enabled
  /\ w.pc = "work" /\ ~w.waiting
  /\ IF w.u < w.end
       THEN SetThr(t, [w EXCEPT !.pc = "relax"])
       ELSE SetThr(t, [w EXCEPT !.pc = "mark", !.u = 0, !.end = 0])
  /\ UNCHANGED <<G, af, fr, trace, cu, ld, harness, seqVars, bfsVars, relaxed, loop_pending, par_pc, num_threads, chunk_size, atomic_labels, changed, next_vertex,
                 barrier_count, par_labels, round_lowered, par_rounds>>

\* if (local_changed) store(changed, 1).
PoolMark(t) ==
  LET w == thr[t] IN
  /\ par_pc = "running"
  /\ w.pc = "mark" /\ ~w.waiting
  /\ changed' = IF w.local_changed # 0 THEN 1 ELSE changed
  /\ SetThr(t, [w EXCEPT !.pc = "bar2"])
  /\ UNCHANGED <<G, af, fr, trace, cu, ld, harness, seqVars, bfsVars, relaxed, loop_pending, par_pc, num_threads, chunk_size, atomic_labels, next_vertex,
                 barrier_count, par_labels, round_lowered, par_rounds>>

\* Mutant of Converged: the leader tests for a set flag.
ConvergedWhenSet(c) == c # 0

\* The leader's convergence test: load(changed) == 0.
Converged(c) == c = 0

\* After the second barrier: thread 0 loads changed; the others go on.
PoolCheck(t) ==
  LET w == thr[t] IN
  /\ par_pc = "running"
  /\ w.pc = "check" /\ ~w.waiting
  /\ IF t = 0
       THEN SetThr(t, [w EXCEPT !.pc = "signal", !.current = changed])
       ELSE SetThr(t, [w EXCEPT !.pc = "bar3"])
  /\ UNCHANGED <<G, af, fr, trace, cu, ld, harness, seqVars, bfsVars, relaxed, loop_pending, par_pc, num_threads, chunk_size, atomic_labels, changed, next_vertex,
                 barrier_count, par_labels, round_lowered, par_rounds>>

\* Thread 0 stores -1 (done) or 0 (reset) into changed.
PoolSignal(t) ==
  LET w == thr[t] IN
  /\ par_pc = "running"
  /\ w.pc = "signal" /\ ~w.waiting
  /\ IF Converged(w.current)
       THEN /\ changed' = -1
            /\ UNCHANGED round_lowered
       ELSE /\ changed' = 0
            /\ round_lowered' = FALSE
  /\ par_rounds' = par_rounds + 1
  /\ SetThr(t, [w EXCEPT !.pc = "bar3", !.current = 0])
  /\ relaxed' = [i \in 0..G.n-1 |-> 0]
  /\ UNCHANGED <<G, af, fr, trace, cu, ld, harness, seqVars, bfsVars, loop_pending, par_pc, num_threads, chunk_size, atomic_labels, next_vertex,
                 barrier_count, par_labels>>

\* After the third barrier: break when changed == -1, else the next round.
PoolTest(t) ==
  LET w == thr[t] IN
  /\ par_pc = "running"
  /\ w.pc = "test" /\ ~w.waiting
  /\ SetThr(t, [w EXCEPT !.pc = IF changed = -1 THEN "done" ELSE "reset",
                         !.local_changed = 0])
  /\ UNCHANGED <<G, af, fr, trace, cu, ld, harness, seqVars, bfsVars, relaxed, loop_pending, par_pc, num_threads, chunk_size, atomic_labels, changed, next_vertex,
                 barrier_count, par_labels, round_lowered, par_rounds>>

\* pthread_join of every worker, copy atomic_labels into labels, release.
PoolJoin ==
  /\ par_pc = "running"
  /\ \A t \in Threads : thr[t].pc = "done"
  /\ par_labels' = atomic_labels
  /\ par_pc' = "returned"
  /\ UNCHANGED <<G, af, fr, trace, cu, ld, harness, seqVars, bfsVars, relaxed, loop_pending, num_threads, chunk_size, atomic_labels, changed, next_vertex,
                 barrier_count, thr, round_lowered, par_rounds>>

PoolNext ==
  \/ PoolEnter
  \/ \E t \in Threads : PoolRoundBegin(t)
  \/ \E t \in Threads : PoolBarrierWait(t)
  \/ \E t \in Threads : PoolFetch(t)
  \/ \E t \in Threads : PoolStatic(t)
  \/ \E t \in Threads : RelaxLoad(t)
  \/ \E t \in Threads : RelaxScan(t)
  \/ \E t \in Threads : RelaxCas(t)
  \/ \E t \in Threads : RelaxPush(t)
  \/ \E t \in Threads : RelaxPushCas(t)
  \/ \E t \in Threads : PoolMark(t)
  \/ \E t \in Threads : PoolCheck(t)
  \/ \E t \in Threads : PoolSignal(t)
  \/ \E t \in Threads : PoolTest(t)
  \/ PoolJoin

SpecPool == PoolInit /\ [][PoolNext]_vars

\* The steps of worker t of the pool.
PoolWorker(t) ==
  /\ t \in Threads
  /\ \/ PoolRoundBegin(t) \/ PoolBarrierWait(t) \/ PoolFetch(t) \/ PoolStatic(t)
     \/ RelaxLoad(t) \/ RelaxScan(t) \/ RelaxCas(t) \/ RelaxPush(t)
     \/ RelaxPushCas(t) \/ PoolMark(t) \/ PoolCheck(t) \/ PoolSignal(t)
     \/ PoolTest(t)

\* The pool under a fair scheduler: the calling thread and every worker that
\* can take a step eventually takes one (a weak CAS does not fail spuriously
\* for ever).
SpecPoolFair ==
  /\ PoolInit
  /\ [][PoolNext]_vars
  /\ WF_vars(PoolEnter)
  /\ WF_vars(PoolJoin)
  /\ \A t \in 0..(MaxT - 1) : WF_vars(PoolWorker(t))

\* --- compute_connected_components_omp / _cilk (atomic versions) ----------
\* The grain of the Cilk kernel's chunk loop.
CilkGrain == 1024

\* The first iterations of the chunks of one round of the parallel loop.
LoopChunks == {c \in 0..G.n-1 : c % chunk_size = 0}

\* A worker of the parallel region, about to ask for its first chunk.
LoopFrame == [NewFrame EXCEPT !.pc = "work"]

\* The call parameters: a graph, the number of workers of the runtime and
\* the chunk of the schedule (effective_chunk, or the Cilk grain).
LoopInit ==
  /\ G \in CSRGraphs(MaxPN)
  /\ harness = HarnessInit
  /\ fr = FrontIdle
  /\ trace = TraceInit
  /\ af = AfIdle
  /\ ld = LoadIdle
  /\ cu = CountIdle
  /\ SeqBfsIdle
  /\ par_pc = "entry"
  /\ num_threads \in 1..MaxT
  /\ chunk_size \in (1..MaxChunk) \cup {CilkGrain}
  /\ atomic_labels = <<>>
  /\ changed = 0
  /\ next_vertex = 0
  /\ loop_pending = {}
  /\ barrier_count = 0
  /\ thr = <<>>
  /\ par_labels \in GarbageArrays(G.n)
  /\ round_lowered = FALSE
  /\ relaxed = <<>>
  /\ par_rounds = 0

\* labels[i] = i; allocate atomic_labels and store labels into it.
LoopEnter ==
  /\ par_pc = "entry"
  /\ par_pc' = "round"
  /\ par_labels' = [i \in 0..G.n-1 |-> i]
  /\ atomic_labels' = [i \in 0..G.n-1 |-> i]
  /\ relaxed' = [i \in 0..G.n-1 |-> 0]
  /\ UNCHANGED <<G, af, fr, trace, cu, ld, harness, seqVars, bfsVars, num_threads, chunk_size, changed, next_vertex,
                 loop_pending, barrier_count, thr, round_lowered, par_rounds>>

\* Top of while (1): changed = 0, then the parallel loop starts with every
\* chunk of [0, n) still to be handed out.
LoopRoundBegin ==
  /\ par_pc = "round"
  /\ par_pc' = "running"
  /\ changed' = 0
  /\ loop_pending' = LoopChunks
  /\ thr' = [t \in Threads |-> LoopFrame]
  /\ round_lowered' = FALSE
  /\ relaxed' = [i \in 0..G.n-1 |-> 0]
  /\ trace' = IF chunk_size = 1
                THEN [trace EXCEPT !.owner = [i \in 0..G.n-1 |-> -1], !.owner_prev = trace.owner]
                ELSE trace
  /\ UNCHANGED <<G, af, fr, cu, ld, harness, seqVars, bfsVars, num_threads, chunk_size, atomic_labels, next_vertex,
                 barrier_count, par_labels, par_rounds>>

\* The runtime hands a worker any chunk not yet handed out; a worker that
\* finds none leaves the loop.
LoopTake(t) ==
  LET w == thr[t] IN
  /\ par_pc = "running"
  /\ w.pc = "work" /\ ~w.waiting
  /\ IF loop_pending = {}
       THEN /\ SetThr(t, [w EXCEPT !.pc = "reduce", !.u = 0, !.end = 0])
            /\ UNCHANGED <<loop_pending, trace>>
       ELSE \E c \in loop_pending :
              /\ loop_pending' = loop_pending \ {c}
              /\ SetThr(t, [w EXCEPT !.pc = "relax", !.u = c,
                                     !.end = ClipN(c + chunk_size)])
              /\ trace' = IF chunk_size = 1
                            THEN [trace EXCEPT !.owner = [@ EXCEPT ![c] = t]]
                            ELSE trace
  /\ UNCHANGED <<G, af, fr, cu, ld, harness, seqVars, bfsVars, relaxed, par_pc, num_threads, chunk_size, atomic_labels, changed,
                 next_vertex, barrier_count, par_labels, round_lowered, par_rounds>>

\* The worker's private flag is combined into the shared one
\* (reduction(|| : changed); if (local_changed) store(any_changed, 1)).
LoopReduce(t) ==
  LET w == thr[t] IN
  /\ par_pc = "running"
  /\ w.pc = "reduce" /\ ~w.waiting
  /\ changed' = IF w.local_changed # 0 THEN 1 ELSE changed
  /\ SetThr(t, [w EXCEPT !.pc = "joined"])
  /\ UNCHANGED <<G, af, fr, trace, cu, ld, harness, seqVars, bfsVars, relaxed, par_pc, num_threads, chunk_size, atomic_labels, next_vertex,
                 loop_pending, barrier_count, par_labels, round_lowered, par_rounds>>

\* Mutant of LoopBreak: the loop is left after any round.
LoopBreakAlways(c) == TRUE

\* if (!changed) break;
LoopBreak(c) == c = 0

\* End of the parallel loop with the flag set: the next round.
LoopRoundEnd ==
  /\ par_pc = "running"
  /\ \A t \in Threads : thr[t].pc = "joined"
  /\ ~LoopBreak(changed)
  /\ par_pc' = "round"
  /\ par_rounds' = par_rounds + 1
  /\ UNCHANGED <<G, af, fr, trace, cu, ld, harness, seqVars, bfsVars, relaxed, num_threads, chunk_size, atomic_labels, changed, next_vertex,
                 loop_pending, barrier_count, thr, par_labels, round_lowered>>

\* End of the parallel loop with the flag clear: break, copy atomic_labels
\* into labels, free(atomic_labels), return.
LoopReturn ==
  /\ par_pc = "running"
  /\ \A t \in Threads : thr[t].pc = "joined"
  /\ LoopBreak(changed)
  /\ par_labels' = atomic_labels
  /\ par_pc' = "returned"
  /\ par_rounds' = par_rounds + 1
  /\ UNCHANGED <<G, af, fr, trace, cu, ld, harness, seqVars, bfsVars, relaxed, num_threads, chunk_size, atomic_labels, changed, next_vertex,
                 loop_pending, barrier_count, thr, round_lowered>>

LoopNext ==
  \/ LoopEnter
  \/ LoopRoundBegin
  \/ \E t \in Threads : LoopTake(t)
  \/ \E t \in Threads : RelaxLoad(t)
  \/ \E t \in Threads : RelaxScan(t)
  \/ \E t \in Threads : RelaxCas(t)
  \/ \E t \in Threads : RelaxPush(t)
  \/ \E t \in Threads : RelaxPushCas(t)
  \/ \E t \in Threads : LoopReduce(t)
  \/ LoopRoundEnd
  \/ LoopReturn

SpecLoop == LoopInit /\ [][LoopNext]_vars

\* ------------------ compute_connected_components_pthreads / lp_worker_dynamic
\* (the frontier-based thread pool: two label buffers and two frontier
\* bitmaps behind shared pointers, CHUNK_SIZE vertices per fetch)
CHUNK_SIZE == 4096

\* The chunk of a fetch. The kernel's chunk is the compile-time CHUNK_SIZE;
\* it is also run with a chunk of MaxChunk vertices, so that a graph of
\* MaxPN vertices spans several chunks, as a graph of more than CHUNK_SIZE
\* vertices does.
FrontChunks == {MaxChunk, CHUNK_SIZE}

\* No BFS kernel is called.
BfsIdle ==
  /\ bfs_pc = "idle"
  /\ bfs_labels = <<>>
  /\ bfs_queue = <<>>
  /\ bfs_front = 0
  /\ bfs_back = 0
  /\ bfs_stc = 0
  /\ bfs_current_label = 0
  /\ bfs_heap = "none"
  /\ bfs_frees = 0

\* The sequential LP kernel is not called.
SeqIdle ==
  /\ seq_pc = "idle"
  /\ seq_mem = <<>>
  /\ seq_labels = "caller"
  /\ seq_new_labels = "aux"
  /\ seq_active = "fa"
  /\ seq_next_active = "fb"
  /\ seq_changed = 0
  /\ seq_u = 0
  /\ seq_rounds = 0
  /\ seq_heap = <<>>
  /\ seq_frees = <<>>

\* The call parameters: a graph and num_threads >= 1; the caller's label
\* array is allocated and not yet written.
FrontCall ==
  /\ par_pc = "fentry"
  /\ num_threads \in 1..MaxT
  /\ chunk_size \in FrontChunks
  /\ atomic_labels = <<>>
  /\ changed = 0
  /\ next_vertex = 0
  /\ loop_pending = {}
  /\ barrier_count = 0
  /\ thr = <<>>
  /\ par_labels = <<>>
  /\ round_lowered = FALSE
  /\ relaxed = <<>>
  /\ par_rounds = 0
  /\ \E c \in GarbageArrays(G.n) :
       fr = [FrontIdle EXCEPT
               !.mem = [b \in SeqBuffers |-> IF b = "caller" THEN c ELSE Fill(G.n, 0)],
               !.heap = [b \in SeqBuffers |-> IF b = "caller" THEN "caller" ELSE "none"]]

\* A worker's frame when its thread starts: the locals of the round loop
\* are not yet assigned. (fetches counts the worker's fetch_adds of the
\* round; it is history, not a variable of the code.)
FrontFrame ==
  [pc |-> "ftop", waiting |-> FALSE, u |-> 0, end |-> 0, local_changed |-> 0,
   fetches |-> 0,
   labels |-> "none", new_labels |-> "none", active |-> "none", next_active |-> "none"]

\* labels[i] = i; allocate new_labels and the two frontiers; memset them;
\* next_vertex = 0, changed = 1, done = 0; initialise the barrier; create
\* the workers.
FrontEnter ==
  /\ par_pc = "fentry"
  /\ par_pc' = "frunning"
  /\ \E a \in GarbageArrays(G.n) :
       fr' = [fr EXCEPT
                !.mem = [b \in SeqBuffers |->
                           CASE b = "caller" -> [i \in 0..G.n-1 |-> i]
                             [] b = "aux"    -> a
                             [] b = "fa"     -> Fill(G.n, 1)
                             [] b = "fb"     -> Fill(G.n, 0)],
                !.heap = [b \in SeqBuffers |-> IF b = "caller" THEN "caller" ELSE "live"],
                !.labels = "caller", !.new_labels = "aux",
                !.active = "fa", !.next_active = "fb", !.done = 0]
  /\ next_vertex' = 0
  /\ changed' = 1
  /\ barrier_count' = 0
  /\ thr' = [t \in Threads |-> FrontFrame]
  /\ UNCHANGED <<G, af, trace, cu, ld, harness, seqVars, bfsVars, num_threads, chunk_size,
                 atomic_labels, loop_pending, par_labels, round_lowered, relaxed, par_rounds>>

\* Top of the round loop: local_changed = 0 and the four shared pointers
\* are read into locals.
FrontRoundBegin(t) ==
  LET w == thr[t] IN
  /\ par_pc = "frunning"
  /\ w.pc = "ftop" /\ ~w.waiting
  /\ SetThr(t, [w EXCEPT !.pc = "fwork", !.local_changed = 0, !.fetches = 0,
                         !.labels = fr.labels, !.new_labels = fr.new_labels,
                         !.active = fr.active, !.next_active = fr.next_active])
  /\ UNCHANGED <<G, af, fr, trace, cu, ld, harness, seqVars, bfsVars, par_pc, num_threads, chunk_size,
                 atomic_labels, changed, next_vertex, loop_pending, barrier_count,
                 par_labels, round_lowered, relaxed, par_rounds>>

\* start = atomic_fetch_add(next_vertex, CHUNK_SIZE); leave the work loop
\* when start >= n, else handle [start, min(start + CHUNK_SIZE, n)).
FrontFetch(t) ==
  LET w == thr[t]
      start == next_vertex IN
  /\ par_pc = "frunning"
  /\ w.pc = "fwork" /\ ~w.waiting
  /\ next_vertex' = WrapAdd(next_vertex, chunk_size)
  /\ IF start >= G.n
       THEN SetThr(t, [w EXCEPT !.pc = "fmark", !.u = 0, !.end = 0,
                                !.fetches = @ + 1])
       ELSE SetThr(t, [w EXCEPT !.pc = "frelax", !.u = start,
                                !.end = ClipN(start + chunk_size),
                                !.fetches = @ + 1])
  /\ UNCHANGED <<G, af, fr, trace, cu, ld, harness, seqVars, bfsVars, par_pc, num_threads, chunk_size,
                 atomic_labels, changed, loop_pending, barrier_count,
                 par_labels, round_lowered, relaxed, par_rounds>>

\* One iteration of the vertex loop of a chunk. The label buffer read is not
\* written during the phase and new_labels[u] is written by the one worker
\* that holds u; the plain stores into next_active may run beside those of
\* another worker, and whatever the order every one of them leaves a 1.
FrontRelax(t) ==
  LET w == thr[t]
      u == w.u
      lab == fr.mem[w.labels]
      old_label == lab[u]
      new_label == ScanMin(G, lab, G.row_ptr[u], G.row_ptr[u + 1], old_label)
  IN
  /\ par_pc = "frunning"
  /\ w.pc = "frelax" /\ ~w.waiting
  /\ IF fr.mem[w.active][u] = 0
       THEN /\ UNCHANGED fr
            /\ SetThr(t, [w EXCEPT !.u = u + 1,
                                   !.pc = IF u + 1 < w.end THEN "frelax" ELSE "fwork"])
       ELSE /\ fr' = [fr EXCEPT
                        !.mem[w.new_labels] = [@ EXCEPT ![u] = new_label],
                        !.mem[w.next_active] =
                           IF new_label < old_label THEN Activate(G, @, u) ELSE @]
            /\ SetThr(t, [w EXCEPT !.u = u + 1,
                                   !.pc = IF u + 1 < w.end THEN "frelax" ELSE "fwork",
                                   !.local_changed =
                                      IF new_label < old_label THEN 1 ELSE @])
  /\ UNCHANGED <<G, af, trace, cu, ld, harness, seqVars, bfsVars, par_pc, num_threads, chunk_size,
                 atomic_labels, changed, next_vertex, loop_pending, barrier_count,
                 par_labels, round_lowered, relaxed, par_rounds>>

\* if (local_changed) atomic_store(changed, 1).
FrontMark(t) ==
  LET w == thr[t] IN
  /\ par_pc = "frunning"
  /\ w.pc = "fmark" /\ ~w.waiting
  /\ changed' = IF w.local_changed # 0 THEN 1 ELSE changed
  /\ SetThr(t, [w EXCEPT !.pc = "fbar1"])
  /\ UNCHANGED <<G, af, fr, trace, cu, ld, harness, seqVars, bfsVars, par_pc, num_threads, chunk_size,
                 atomic_labels, next_vertex, loop_pending, barrier_count,
                 par_labels, round_lowered, relaxed, par_rounds>>

\* Where a worker continues after each of the two barriers of a round.
FrontAfterBarrier(pc) ==
  CASE pc = "fbar1" -> "fphase2"
    [] pc = "fbar2" -> "ftest"

\* pthread_barrier_wait, as in the other pool.
FrontBarrierWait(t) ==
  LET w == thr[t] IN
  /\ par_pc = "frunning"
  /\ w.pc \in {"fbar1", "fbar2"} /\ ~w.waiting
  /\ IF BarrierFull(barrier_count + 1)
       THEN /\ barrier_count' = 0
            /\ thr' = [x \in Threads |->
                         IF x = t THEN [w EXCEPT !.pc = FrontAfterBarrier(w.pc)]
                         ELSE [thr[x] EXCEPT !.waiting = FALSE]]
       ELSE /\ barrier_count' = barrier_count + 1
            /\ SetThr(t, [w EXCEPT !.pc = FrontAfterBarrier(w.pc), !.waiting = TRUE])
  /\ UNCHANGED <<G, af, fr, trace, cu, ld, harness, seqVars, bfsVars, par_pc, num_threads, chunk_size,
                 atomic_labels, changed, next_vertex, loop_pending,
                 par_labels, round_lowered, relaxed, par_rounds>>

\* Phase 2, between the two barriers. Thread 0 sets done when changed is 0;
\* otherwise it clears done, changed and next_vertex, swaps the two label
\* pointers and the two frontier pointers and clears the new next frontier.
\* The other workers go straight to the second barrier, so nobody reads what
\* the leader writes before the barrier opens.
FrontPhase2(t) ==
  LET w == thr[t] IN
  /\ par_pc = "frunning"
  /\ w.pc = "fphase2" /\ ~w.waiting
  /\ SetThr(t, [w EXCEPT !.pc = "fbar2"])
  /\ IF t = 0
       THEN /\ IF changed = 0
                 THEN /\ fr' = [fr EXCEPT !.done = 1]
                      /\ UNCHANGED <<changed, next_vertex>>
                 ELSE /\ fr' = [fr EXCEPT
                                  !.done = 0,
                                  !.labels = fr.new_labels,
                                  !.new_labels = fr.labels,
                                  !.active = fr.next_active,
                                  !.next_active = fr.active,
                                  !.mem[fr.active] = Fill(G.n, 0)]
                      /\ changed' = 0
                      /\ next_vertex' = 0
            /\ par_rounds' = par_rounds + 1
            /\ trace' = [trace EXCEPT !.pool = Append(@, RoundRecord(fr.mem[fr.new_labels],
                                                                    fr.mem[fr.next_active]))]
       ELSE UNCHANGED <<fr, changed, next_vertex, par_rounds, trace>>
  /\ UNCHANGED <<G, af, cu, ld, harness, seqVars, bfsVars, par_pc, num_threads, chunk_size,
                 atomic_labels, loop_pending, barrier_count,
                 par_labels, round_lowered, relaxed>>

\* if (*args->done) break;
FrontTest(t) ==
  LET w == thr[t] IN
  /\ par_pc = "frunning"
  /\ w.pc = "ftest" /\ ~w.waiting
  /\ SetThr(t, [w EXCEPT !.pc = IF fr.done # 0 THEN "fdone" ELSE "ftop"])
  /\ UNCHANGED <<G, af, fr, trace, cu, ld, harness, seqVars, bfsVars, par_pc, num_threads, chunk_size,
                 atomic_labels, changed, next_vertex, loop_pending, barrier_count,
                 par_labels, round_lowered, relaxed, par_rounds>>

\* The buffers the kernel frees before it returns (new_labels is not).
FrontFreed == {fr.active, fr.next_active}

\* pthread_join of every worker; free(active); free(next_active); return.
\* The caller is left with its own array, whichever buffer the kernel's
\* pointer `labels` names by now.
FrontJoin ==
  /\ par_pc = "frunning"
  /\ \A t \in Threads : thr[t].pc = "fdone"
  /\ \E ca \in FreedContents(G, fr.mem[fr.active]),
        cn \in FreedContents(G, fr.mem[fr.next_active]) :
       fr' = [fr EXCEPT
                !.mem = [b \in SeqBuffers |->
                           CASE b = fr.active      -> ca
                             [] b = fr.next_active -> cn
                             [] OTHER              -> fr.mem[b]],
                !.heap = [b \in SeqBuffers |->
                            IF b \in FrontFreed THEN "freed" ELSE fr.heap[b]]]
  /\ par_labels' = fr.mem["caller"]
  /\ par_pc' = "freturned"
  /\ UNCHANGED <<G, af, trace, cu, ld, harness, seqVars, bfsVars, num_threads, chunk_size,
                 atomic_labels, changed, next_vertex, loop_pending, barrier_count, thr,
                 round_lowered, relaxed, par_rounds>>

\* ------------------------- compute_connected_components_omp (frontier)
\* (the OpenMP kernel with a compact list of the active vertices; fr holds
\* its buffers, fr.labels is label_buffers[active_idx] and fr.new_labels the
\* other one)
\* The call: a graph and the caller's label array, not yet written.
OmpCall ==
  /\ par_pc = "oentry"
  /\ num_threads = 0
  /\ chunk_size = 0
  /\ atomic_labels = <<>>
  /\ changed = 0
  /\ next_vertex = 0
  /\ loop_pending = {}
  /\ barrier_count = 0
  /\ thr = <<>>
  /\ par_labels = <<>>
  /\ round_lowered = FALSE
  /\ relaxed = <<>>
  /\ par_rounds = 0
  /\ \E c \in GarbageArrays(G.n) :
       fr = [FrontIdle EXCEPT
               !.mem = [b \in SeqBuffers |-> IF b = "caller" THEN c ELSE Fill(G.n, 0)],
               !.heap = [b \in SeqBuffers |-> IF b = "caller" THEN "caller" ELSE "none"]]

\* labels[i] = i; allocate aux_labels and the two frontiers; memset them;
\* active_idx = 0.
OmpEnter ==
  /\ par_pc = "oentry"
  /\ par_pc' = "olist"
  /\ \E a \in GarbageArrays(G.n) :
       fr' = [fr EXCEPT
                !.mem = [b \in SeqBuffers |->
                           CASE b = "caller" -> [i \in 0..G.n-1 |-> i]
                             [] b = "aux"    -> a
                             [] b = "fa"     -> Fill(G.n, 1)
                             [] b = "fb"     -> Fill(G.n, 0)],
                !.heap = [b \in SeqBuffers |-> IF b = "caller" THEN "caller" ELSE "live"],
                !.labels = "caller", !.new_labels = "aux",
                !.active = "fa", !.next_active = "fb"]
  /\ UNCHANGED <<G, af, trace, cu, ld, harness, seqVars, bfsVars, num_threads, chunk_size,
                 atomic_labels, changed, next_vertex, loop_pending, barrier_count, thr,
                 par_labels, round_lowered, relaxed, par_rounds>>

\* Top of while (1): changed = 0; the active vertices are gathered into
\* active_list (in the order the threads deliver their parts); the loop ends
\* when there is none.
OmpBuildList ==
  LET listed == {u \in 0..G.n-1 : fr.mem[fr.active][u] # 0} IN
  /\ par_pc = "olist"
  /\ changed' = 0
  /\ loop_pending' = listed
  /\ par_pc' = IF listed = {} THEN "ocopy" ELSE "oloop"
  /\ UNCHANGED <<G, af, fr, trace, cu, ld, harness, seqVars, bfsVars, num_threads, chunk_size,
                 atomic_labels, next_vertex, barrier_count, thr,
                 par_labels, round_lowered, relaxed, par_rounds>>

\* One iteration of the parallel loop over active_list, taken by whichever
\* thread the dynamic schedule gives it to. current_labels is not written
\* during the loop, next_labels[u] is written by this iteration only, and
\* every store into next_active stores a 1.
OmpIteration(u) ==
  LET lab == fr.mem[fr.labels]
      old_label == lab[u]
      new_label == ScanMin(G, lab, G.row_ptr[u], G.row_ptr[u + 1], old_label)
  IN
  /\ par_pc = "oloop"
  /\ u \in loop_pending
  /\ loop_pending' = loop_pending \ {u}
  /\ fr' = [fr EXCEPT
              !.mem[fr.new_labels] = [@ EXCEPT ![u] = new_label],
              !.mem[fr.next_active] =
                 IF new_label < old_label THEN Activate(G, @, u) ELSE @]
  /\ changed' = IF new_label < old_label THEN 1 ELSE changed
  /\ UNCHANGED <<G, af, trace, cu, ld, harness, seqVars, bfsVars, par_pc, num_threads, chunk_size,
                 atomic_labels, next_vertex, barrier_count, thr,
                 par_labels, round_lowered, relaxed, par_rounds>>

\* After the loop: break when nothing changed; else active_idx ^= 1, the
\* frontiers are swapped and the new next frontier is cleared.
OmpRoundEnd ==
  /\ par_pc = "oloop"
  /\ loop_pending = {}
  /\ par_rounds' = par_rounds + 1
  /\ IF changed = 0
       THEN /\ par_pc' = "ocopy"
            /\ UNCHANGED fr
       ELSE /\ par_pc' = "olist"
            /\ fr' = [fr EXCEPT
                        !.labels = fr.new_labels,
                        !.new_labels = fr.labels,
                        !.active = fr.next_active,
                        !.next_active = fr.active,
                        !.mem[fr.active] = Fill(G.n, 0)]
  /\ UNCHANGED <<G, af, trace, cu, ld, harness, seqVars, bfsVars, num_threads, chunk_size,
                 atomic_labels, changed, next_vertex, loop_pending, barrier_count, thr,
                 par_labels, round_lowered, relaxed>>

\* The buffers the kernel frees before it returns.
OmpFreed == {"aux", fr.active, fr.next_active}

\* Copy label_buffers[active_idx] into labels when active_idx != 0; free
\* aux_labels, active and next_active; return.
OmpReturn ==
  /\ par_pc = "ocopy"
  /\ \E cl \in FreedContents(G, fr.mem["aux"]),
        ca \in FreedContents(G, fr.mem[fr.active]),
        cn \in FreedContents(G, fr.mem[fr.next_active]) :
       fr' = [fr EXCEPT
                !.mem = [b \in SeqBuffers |->
                           CASE b = "caller"       -> fr.mem[fr.labels]
                             [] b = "aux"          -> cl
                             [] b = fr.active      -> ca
                             [] b = fr.next_active -> cn],
                !.heap = [b \in SeqBuffers |->
                            IF b \in OmpFreed THEN "freed" ELSE fr.heap[b]]]
  /\ par_labels' = fr.mem[fr.labels]
  /\ par_pc' = "oreturned"
  /\ UNCHANGED <<G, af, trace, cu, ld, harness, seqVars, bfsVars, num_threads, chunk_size,
                 atomic_labels, changed, next_vertex, loop_pending, barrier_count, thr,
                 round_lowered, relaxed, par_rounds>>

\* The frontier pool is between two rounds (or before the first): every
\* worker has passed the second barrier and none has fetched a chunk of the
\* round to come.
FrontRoundStart ==
  /\ par_pc = "frunning"
  /\ fr.done = 0
  /\ \A t \in Threads :
       \/ thr[t].pc \in {"ftest", "ftop"} /\ ~thr[t].waiting
       \/ thr[t].pc = "fwork" /\ thr[t].fetches = 0

\* The frontier pool alone.
FrontInit ==
  /\ G \in CSRGraphs(MaxPN)
  /\ harness = HarnessInit
  /\ trace = TraceInit
  /\ af = AfIdle
  /\ ld = LoadIdle
  /\ cu = CountIdle
  /\ BfsIdle
  /\ SeqIdle
  /\ FrontCall

FrontNext ==
  \/ FrontEnter
  \/ \E t \in Threads : FrontRoundBegin(t)
  \/ \E t \in Threads : FrontFetch(t)
  \/ \E t \in Threads : FrontRelax(t)
  \/ \E t \in Threads : FrontMark(t)
  \/ \E t \in Threads : FrontBarrierWait(t)
  \/ \E t \in Threads : FrontPhase2(t)
  \/ \E t \in Threads : FrontTest(t)
  \/ FrontJoin

\* Either thread pool kernel, called on a graph.
SpecPools == (PoolInit \/ FrontInit) /\ [][PoolNext \/ FrontNext]_vars

\* The frontier kernels on one graph: the frontier pool and then the
\* sequential LP kernel, called one after the other, or the OpenMP frontier
\* kernel.
FrontierInit ==
  /\ G \in CSRGraphs(MaxPN)
  /\ harness = HarnessInit
  /\ trace = TraceInit
  /\ af = AfIdle
  /\ ld = LoadIdle
  /\ cu = CountIdle
  /\ BfsIdle
  /\ \/ SeqInit /\ FrontCall
     \/ SeqIdle /\ OmpCall

\* The sequential run starts once the pool run has returned.
SeqAfterFront == par_pc = "freturned" /\ SeqEnter

FrontierNext ==
  \/ FrontEnter
  \/ \E t \in Threads : FrontRoundBegin(t)
  \/ \E t \in Threads : FrontFetch(t)
  \/ \E t \in Threads : FrontRelax(t)
  \/ \E t \in Threads : FrontMark(t)
  \/ \E t \in Threads : FrontBarrierWait(t)
  \/ \E t \in Threads : FrontPhase2(t)
  \/ \E t \in Threads : FrontTest(t)
  \/ FrontJoin
  \/ SeqAfterFront
  \/ SeqWhile
  \/ SeqRelax
  \/ SeqSwap
  \/ SeqReturn
  \/ OmpEnter
  \/ OmpBuildList
  \/ \E u \in 0..G.n-1 : OmpIteration(u)
  \/ OmpRoundEnd
  \/ OmpReturn

SpecFrontier == FrontierInit /\ [][FrontierNext]_vars

\* --------------------------------------------------- Afforest (pthreads)
\* compute_connected_components_pthreads_afforest: a lock-free union-find
\* over an atomic parent array, run by num_threads workers in four phases
\* separated by barriers.  Every atomic access is one step.
MaxAfN == 4

MaxAfT == 2

\* thread_vertex_range: block = (n + T - 1) / T, [t*block, t*block + block)
\* clipped to n.
thread_vertex_range(n, t, T) ==
  LET block == (n + T - 1) \div T
      s == t * block
      e == s + block
  IN [start |-> IF s > n THEN n ELSE s, end |-> IF e > n THEN n ELSE e]

\* A worker's frame on entry to afforest_worker, before the first barrier.
AfFrame(t, T) ==
  LET r == thread_vertex_range(G.n, t, T) IN
  [pc |-> "barrier", waiting |-> FALSE, phase |-> 0, start |-> r.start,
   end |-> r.end, u |-> 0, j |-> 0, ux |-> 0, uy |-> 0, which |-> "none",
   x |-> 0, p |-> 0, pp |-> 0, rx |-> 0, ry |-> 0, root |-> 0]

\* The locals of uf_find and uf_union are dead outside the calls.
AfClear(w) ==
  [w EXCEPT !.ux = 0, !.uy = 0, !.which = "none", !.x = 0, !.p = 0,
            !.pp = 0, !.rx = 0, !.ry = 0, !.root = 0]

\* A call uf_find(parent, x): the next step is its first load.
AfStartFind(w, which, x) ==
  [w EXCEPT !.pc = "find_load", !.which = which, !.x = x, !.p = 0, !.pp = 0]

\* A call uf_union(parent, x, y), or the next turn of its retry loop:
\* rx = uf_find(parent, x) comes first.
AfStartUnion(w, x, y) ==
  AfStartFind([AfClear(w) EXCEPT !.ux = x, !.uy = y], "rx", x)

\* Phase 1 samples the first neighbour of u, if u has one and it is a vertex.
SampledNeighbor(g, u) ==
  IF g.row_ptr[u] < g.row_ptr[u + 1]
       /\ g.col_idx[g.row_ptr[u]] >= 0 /\ g.col_idx[g.row_ptr[u]] < g.n
    THEN {g.col_idx[g.row_ptr[u]]}
    ELSE {}

\* Phase 3 processes each undirected edge once: if (v > u).
LinksEdge(u, v) == v > u

\* The loops of afforest_worker, from vertex w.u (and edge w.j in phase 3) up
\* to the next atomic access: the first call of uf_union or uf_find the phase
\* makes, or the barrier that ends the phase.
RECURSIVE AfWalk(_)
AfWalk(w) ==
  IF w.u >= w.end THEN [AfClear(w) EXCEPT !.pc = "barrier", !.u = 0, !.j = 0]
  ELSE CASE w.phase = 1 ->
              IF SampledNeighbor(G, w.u) # {}
                THEN AfStartUnion(w, w.u, CHOOSE v \in SampledNeighbor(G, w.u) : TRUE)
                ELSE AfWalk([w EXCEPT !.u = @ + 1])
         [] w.phase = 3 ->
              IF w.j >= G.row_ptr[w.u + 1]
                THEN AfWalk([w EXCEPT !.u = @ + 1, !.j = G.row_ptr[w.u + 1]])
                ELSE IF LinksEdge(w.u, G.col_idx[w.j])
                       THEN AfStartUnion(w, w.u, G.col_idx[w.j])
                       ELSE AfWalk([w EXCEPT !.j = @ + 1])
         [] OTHER -> AfStartFind(AfClear(w), "root", w.u)

\* uf_union returns to the loop of its phase.
AfUnionReturn(w) ==
  IF w.phase = 1 THEN AfWalk([AfClear(w) EXCEPT !.u = @ + 1])
  ELSE AfWalk([AfClear(w) EXCEPT !.j = @ + 1])

\* Mutant of HookOrder: the smaller root is linked under the larger.
HookOrderReversed(a, b) == IF a < b THEN [rx |-> a, ry |-> b] ELSE [rx |-> b, ry |-> a]

\* uf_union: if (rx < ry) swap, so that rx is the larger root, the one that
\* gets linked under ry.
HookOrder(a, b) == IF a < b THEN [rx |-> b, ry |-> a] ELSE [rx |-> a, ry |-> b]

\* uf_find returns root to its caller: uf_union's first call, uf_union's second
\* call, or uf_compress_range.
AfFindDone(w, root) ==
  CASE w.which = "rx" -> AfStartFind([w EXCEPT !.rx = root], "ry", w.uy)
    [] w.which = "ry" ->
         IF w.rx = root THEN AfUnionReturn(w)
         ELSE [w EXCEPT !.pc = "union_load", !.which = "none", !.x = 0, !.p = 0, !.pp = 0,
                        !.rx = HookOrder(w.rx, root).rx, !.ry = HookOrder(w.rx, root).ry]
    [] OTHER -> [AfClear(w) EXCEPT !.pc = "compress_store", !.root = root]

\* uf_find: p = atomic_load(&parent[x]); while (p != x) ...
AfFindLoad(t) ==
  LET w == thr[t]
      p == af.parent[w.x] IN
  /\ par_pc = "arunning"
  /\ w.pc = "find_load" /\ ~w.waiting
  /\ SetThr(t, IF p = w.x THEN AfFindDone(w, w.x)
               ELSE [w EXCEPT !.pc = "find_load2", !.p = p])
  /\ UNCHANGED <<G, af, fr, trace, cu, ld, harness, seqVars, bfsVars, relaxed, loop_pending, par_pc, num_threads, chunk_size, atomic_labels, changed, next_vertex,
                 par_labels, round_lowered, par_rounds, barrier_count>>

\* uf_find: pp = atomic_load(&parent[p]); without a store when pp == p, and
\* then x = p; p = pp ends the loop.
AfFindLoad2(t) ==
  LET w == thr[t]
      pp == af.parent[w.p] IN
  /\ par_pc = "arunning"
  /\ w.pc = "find_load2" /\ ~w.waiting
  /\ SetThr(t, IF pp # w.p THEN [w EXCEPT !.pc = "find_store", !.pp = pp]
               ELSE AfFindDone(w, w.p))
  /\ UNCHANGED <<G, af, fr, trace, cu, ld, harness, seqVars, bfsVars, relaxed, loop_pending, par_pc, num_threads, chunk_size, atomic_labels, changed, next_vertex,
                 par_labels, round_lowered, par_rounds, barrier_count>>

\* uf_find, path splitting: atomic_store(&parent[x], pp); x = p; p = pp; the
\* loop goes on, as pp != p.
AfFindStore(t) ==
  LET w == thr[t] IN
  /\ par_pc = "arunning"
  /\ w.pc = "find_store" /\ ~w.waiting
  /\ af' = [af EXCEPT !.parent[w.x] = w.pp]
  /\ SetThr(t, [w EXCEPT !.pc = "find_load2", !.x = w.p, !.p = w.pp, !.pp = 0])
  /\ UNCHANGED <<G, fr, trace, cu, ld, harness, seqVars, bfsVars, relaxed, loop_pending, par_pc, num_threads, chunk_size, atomic_labels, changed, next_vertex,
                 par_labels, round_lowered, par_rounds, barrier_count>>

\* uf_union: prx = atomic_load(&parent[rx]); if (prx != rx) continue;
AfUnionLoad(t) ==
  LET w == thr[t] IN
  /\ par_pc = "arunning"
  /\ w.pc = "union_load" /\ ~w.waiting
  /\ SetThr(t, IF af.parent[w.rx] # w.rx THEN AfStartUnion(w, w.ux, w.uy)
               ELSE [w EXCEPT !.pc = "union_cas"])
  /\ UNCHANGED <<G, af, fr, trace, cu, ld, harness, seqVars, bfsVars, relaxed, loop_pending, par_pc, num_threads, chunk_size, atomic_labels, changed, next_vertex,
                 par_labels, round_lowered, par_rounds, barrier_count>>

\* uf_union: atomic_compare_exchange_strong(&parent[rx], &prx, ry) with
\* prx == rx; return on success, else the loop retries.
AfUnionCas(t) ==
  LET w == thr[t] IN
  /\ par_pc = "arunning"
  /\ w.pc = "union_cas" /\ ~w.waiting
  /\ IF af.parent[w.rx] = w.rx
       THEN /\ af' = [af EXCEPT !.parent[w.rx] = w.ry]
            /\ SetThr(t, AfUnionReturn(w))
       ELSE /\ af' = af
            /\ SetThr(t, AfStartUnion(w, w.ux, w.uy))
  /\ UNCHANGED <<G, fr, trace, cu, ld, harness, seqVars, bfsVars, relaxed, loop_pending, par_pc, num_threads, chunk_size, atomic_labels, changed, next_vertex,
                 par_labels, round_lowered, par_rounds, barrier_count>>

\* uf_compress_range: atomic_store(&parent[i], root) after root =
\* uf_find(parent, i).
AfCompressStore(t) ==
  LET w == thr[t] IN
  /\ par_pc = "arunning"
  /\ w.pc = "compress_store" /\ ~w.waiting
  /\ af' = [af EXCEPT !.parent[w.u] = w.root]
  /\ SetThr(t, AfWalk([AfClear(w) EXCEPT !.u = @ + 1]))
  /\ UNCHANGED <<G, fr, trace, cu, ld, harness, seqVars, bfsVars, relaxed, loop_pending, par_pc, num_threads, chunk_size, atomic_labels, changed, next_vertex,
                 par_labels, round_lowered, par_rounds, barrier_count>>

\* Where a worker goes on after a barrier: into the next of the four phases,
\* at the first vertex of its range, or out of afforest_worker after the
\* fifth barrier.
AfAfterBarrier(w) ==
  IF w.phase = 4 THEN [w EXCEPT !.pc = "adone", !.phase = 5]
  ELSE AfWalk([w EXCEPT !.phase = @ + 1, !.u = w.start, !.j = G.row_ptr[w.start]])

\* pthread_barrier_wait(a->barrier): the five barriers of afforest_worker.
AfBarrierWait(t) ==
  LET w == thr[t] IN
  /\ par_pc = "arunning"
  /\ w.pc = "barrier" /\ ~w.waiting
  /\ IF BarrierFull(barrier_count + 1)
       THEN /\ barrier_count' = 0
            /\ thr' = [x \in Threads |->
                         IF x = t THEN AfAfterBarrier(w)
                         ELSE [thr[x] EXCEPT !.waiting = FALSE]]
       ELSE /\ barrier_count' = barrier_count + 1
            /\ SetThr(t, [AfAfterBarrier(w) EXCEPT !.waiting = TRUE])
  /\ UNCHANGED <<G, af, fr, trace, cu, ld, harness, seqVars, bfsVars, relaxed, loop_pending, par_pc, num_threads, chunk_size, atomic_labels, changed, next_vertex,
                 par_labels, round_lowered, par_rounds>>

\* The call: a graph, the caller's label array (allocated, not yet written),
\* and any thread count, zero included.
AfCall ==
  /\ par_pc = "aentry"
  /\ num_threads \in 0..MaxAfT
  /\ chunk_size = 0
  /\ atomic_labels = <<>>
  /\ changed = 0
  /\ next_vertex = 0
  /\ loop_pending = {}
  /\ barrier_count = 0
  /\ thr = <<>>
  /\ par_labels = <<>>
  /\ round_lowered = FALSE
  /\ relaxed = <<>>
  /\ par_rounds = 0
  /\ af \in {[parent |-> <<>>, labels |-> a, heap |-> [caller |-> "caller", parent |-> "none"]] :
               a \in GarbageArrays(G.n)}

\* if (n <= 0) return; if (num_threads <= 0) num_threads = 1; the parent array
\* is allocated and atomic_init(&parent[i], i); the barrier is initialised for
\* num_threads and the workers are created.
AfEnter ==
  /\ par_pc = "aentry"
  /\ IF G.n <= 0
       THEN /\ par_pc' = "areturned"
            /\ UNCHANGED <<af, num_threads, thr>>
       ELSE /\ par_pc' = "arunning"
            /\ num_threads' = (IF num_threads <= 0 THEN 1 ELSE num_threads)
            /\ af' = [af EXCEPT !.parent = [i \in 0..G.n-1 |-> i], !.heap.parent = "live"]
            /\ thr' = [t \in 0..(num_threads' - 1) |-> AfFrame(t, num_threads')]
  /\ UNCHANGED <<G, fr, trace, cu, ld, harness, seqVars, bfsVars, relaxed, loop_pending, chunk_size, atomic_labels, changed, next_vertex,
                 par_labels, round_lowered, par_rounds, barrier_count>>

\* pthread_join of every worker, labels[i] = atomic_load(&parent[i]) for
\* every i, free(parent).
AfJoin ==
  /\ par_pc = "arunning"
  /\ \A t \in Threads : thr[t].pc = "adone" /\ ~thr[t].waiting
  /\ par_pc' = "areturned"
  /\ af' = [af EXCEPT !.labels = af.parent, !.heap.parent = "freed"]
  /\ UNCHANGED <<G, fr, trace, cu, ld, harness, seqVars, bfsVars, relaxed, loop_pending, num_threads, chunk_size, atomic_labels, changed, next_vertex,
                 par_labels, round_lowered, par_rounds, barrier_count, thr>>

\* A connected graph on eight vertices whose sampled trees {0,7}, {1,5},
\* {2,6}, {3,4} are joined by the edges 3-6, 5-6 and 5-7 in phase 3, for two
\* threads with the ranges [0,4) and [4,8).
AfChainGraph ==
  BuildCSR(8, {<<0, 7>>, <<1, 5>>, <<2, 6>>, <<3, 4>>, <<3, 6>>, <<5, 6>>, <<5, 7>>})

AfInit ==
  /\ G \in CSRGraphs(MaxAfN) \cup {AfChainGraph}
  /\ harness = HarnessInit
  /\ trace = TraceInit
  /\ fr = FrontIdle
  /\ ld = LoadIdle
  /\ cu = CountIdle
  /\ SeqBfsIdle
  /\ AfCall

AfNext ==
  \/ AfEnter
  \/ \E t \in Threads : AfFindLoad(t)
  \/ \E t \in Threads : AfFindLoad2(t)
  \/ \E t \in Threads : AfFindStore(t)
  \/ \E t \in Threads : AfUnionLoad(t)
  \/ \E t \in Threads : AfUnionCas(t)
  \/ \E t \in Threads : AfCompressStore(t)
  \/ \E t \in Threads : AfBarrierWait(t)
  \/ AfJoin

\* The Afforest kernel, called on a graph.
SpecAfforest == AfInit /\ [][AfNext]_vars

\* ------------------------------------------------------------------ Spec
\* The sequential harness: the BFS kernel, then the LP kernel, on one graph.
Init ==
  /\ G \in CSRGraphs(MaxN)
  /\ harness = HarnessInit
  /\ fr = FrontIdle
  /\ trace = TraceInit
  /\ af = AfIdle
  /\ ld = LoadIdle
  /\ cu = CountIdle
  /\ BfsInit
  /\ SeqInit
  /\ ParIdle

\* The LP run starts once the BFS run has returned.
SeqStart == bfs_pc = "done" /\ SeqEnter

Next ==
  \/ BfsEnter
  \/ BfsFor
  \/ BfsVisit
  \/ BfsComponentDone
  \/ BfsReturn
  \/ SeqStart
  \/ SeqWhile
  \/ SeqRelax
  \/ SeqSwap
  \/ SeqReturn

Spec == Init /\ [][Next]_vars

\* --- the benchmark harness: for (run = 0; run < runs; run++) kernel(&G, labels)
\* The next run of the BFS kernel, on the label array the last run left.
BfsRerun ==
  /\ bfs_pc = "done"
  /\ harness.bfs_runs < MaxRuns
  /\ bfs_labels' = Fill(G.n, -1)
  /\ bfs_queue' \in GarbageArrays(G.n)
  /\ bfs_heap' = "live"
  /\ bfs_current_label' = 0
  /\ bfs_stc' = 0
  /\ bfs_front' = 0
  /\ bfs_back' = 0
  /\ bfs_pc' = "for"
  /\ trace' = [trace EXCEPT !.enq = <<>>]
  /\ UNCHANGED <<G, af, fr, cu, ld, harness, seqVars, parVars, bfs_frees>>

\* The next run of the LP kernel, on the label array the last run left. If
\* the last run released that array, the kernel writes through a dangling
\* pointer and releases the block again: the behaviour is undefined, the
\* run may stop anywhere and the array may hold anything.
SeqRerun ==
  /\ seq_pc = "done"
  /\ harness.seq_runs < MaxRuns
  /\ IF seq_heap["caller"] = "freed"
       THEN /\ seq_pc' = "undefined"
            /\ \E c \in FreedContents(G, [i \in 0..G.n-1 |-> i]) :
                 seq_mem' = [seq_mem EXCEPT !["caller"] = c]
            /\ UNCHANGED <<seq_labels, seq_new_labels, seq_active, seq_next_active,
                           seq_changed, seq_rounds, seq_heap, seq_frees>>
       ELSE /\ seq_pc' = "while"
            /\ \E a \in GarbageArrays(G.n) :
                 seq_mem' = [b \in SeqBuffers |->
                               CASE b = "caller" -> [i \in 0..G.n-1 |-> i]
                                 [] b = "aux"    -> a
                                 [] b = "fa"     -> Fill(G.n, 1)
                                 [] b = "fb"     -> Fill(G.n, 0)]
            /\ seq_labels' = "caller"
            /\ seq_new_labels' = "aux"
            /\ seq_active' = "fa"
            /\ seq_next_active' = "fb"
            /\ seq_changed' = 1
            /\ seq_rounds' = 0
            /\ seq_heap' = [b \in SeqBuffers |-> IF b = "caller" THEN "caller" ELSE "live"]
            /\ seq_frees' = [b \in SeqBuffers |-> IF b = "caller" THEN seq_frees[b] ELSE 0]
  /\ trace' = [trace EXCEPT !.seq = <<>>]
  /\ UNCHANGED <<G, af, fr, cu, ld, harness, bfsVars, parVars, seq_u>>

NextRerun ==
  \/ BfsEnter
  \/ BfsFor
  \/ BfsVisit
  \/ BfsComponentDone
  \/ BfsReturn
  \/ BfsRerun
  \/ SeqStart
  \/ SeqWhile
  \/ SeqRelax
  \/ SeqSwap
  \/ SeqReturn
  \/ SeqRerun

SpecRerun == Init /\ [][NextRerun]_vars

\* --------------------------------------- load_csr_from_mtx: the steps
\* cmp_edge: lexicographic order on (u, v).
cmp_edge(a, b) ==
  IF a.u # b.u THEN (IF a.u < b.u THEN -1 ELSE 1)
  ELSE IF a.v # b.v THEN (IF a.v < b.v THEN -1 ELSE 1)
  ELSE 0

\* qsort(E, m, sizeof(Edge), cmp_edge): the records in cmp_edge order
\* (records that compare equal are identical).
RECURSIVE InsertEdge(_, _)
InsertEdge(S, e) ==
  IF S = <<>> THEN <<e>>
  ELSE IF cmp_edge(e, Head(S)) <= 0 THEN <<e>> \o S
  ELSE <<Head(S)>> \o InsertEdge(Tail(S), e)

RECURSIVE qsort_edges(_)
qsort_edges(E) ==
  IF E = <<>> THEN <<>> ELSE InsertEdge(qsort_edges(Tail(E)), Head(E))

\* Mutant of IsNewEdge: every record is taken for a new one.
IsNewEdgeAlways(W, e) == TRUE

\* dedup_edges: write == 0 || E[r] differs from E[write - 1].
IsNewEdge(W, e) ==
  Len(W) = 0 \/ e.u # W[Len(W)].u \/ e.v # W[Len(W)].v

\* Mutant of IsDropped: self-loops are kept.
IsDroppedNever(drop_self_loops, e) == FALSE

\* dedup_edges: drop_self_loops && E[r].u == E[r].v.
IsDropped(drop_self_loops, e) == drop_self_loops /\ e.u = e.v

\* dedup_edges from record r on; W is E[0 .. write-1].
RECURSIVE DedupFrom(_, _, _, _)
DedupFrom(E, r, W, drop_self_loops) ==
  IF r > Len(E) THEN W
  ELSE IF IsDropped(drop_self_loops, E[r]) THEN DedupFrom(E, r + 1, W, drop_self_loops)
  ELSE IF IsNewEdge(W, E[r]) THEN DedupFrom(E, r + 1, Append(W, E[r]), drop_self_loops)
  ELSE DedupFrom(E, r + 1, W, drop_self_loops)

dedup_edges(E, drop_self_loops) == DedupFrom(E, 1, <<>>, drop_self_loops)

\* Mutant of InRange: the upper bound is not tested.
InRangeLowOnly(i, j, n) == ~(i < 0 \/ j < 0)

\* The ingest loop keeps a record unless i < 0 || j < 0 || i >= n || j >= n.
InRange(i, j, n) == ~(i < 0 \/ j < 0 \/ i >= n \/ j >= n)

\* Mutant of WithReverse: a self-loop is mirrored too.
WithReverseOfLoops(f, i, j) == f.symmetric_in_file \/ f.symmetrize

\* Mutant of WithReverse: the reverse record is never appended.
WithReverseNever(f, i, j) == FALSE

\* (symmetric_in_file || symmetrize) && i != j
WithReverse(f, i, j) == (f.symmetric_in_file \/ f.symmetrize) /\ i # j

\* The body of the ingest loop for the 1-based record (fi, fj).
Ingest(f, fi, fj) ==
  LET i == fi - 1
      j == fj - 1
  IN IF ~InRange(i, j, f.n) THEN f.E
     ELSE IF WithReverse(f, i, j)
       THEN f.E \o <<[u |-> i, v |-> j], [u |-> j, v |-> i]>>
       ELSE Append(f.E, [u |-> i, v |-> j])

\* calloc(n + 1), then row_ptr[E[r].u + 1]++ for every record.
RowCounts(E, n) ==
  [i \in 0..n |-> Cardinality({r \in 1..Len(E) : E[r].u + 1 = i})]

\* for (i = 0; i < n; ++i) row_ptr[i + 1] += row_ptr[i];
RECURSIVE PrefixSum(_, _, _)
PrefixSum(row_ptr, i, n) ==
  IF i >= n THEN row_ptr
  ELSE PrefixSum([row_ptr EXCEPT ![i + 1] = @ + row_ptr[i]], i + 1, n)

\* for (r ...) col_idx[head[u]++] = E[r].v;
RECURSIVE Scatter(_, _, _, _)
Scatter(E, r, head, col_idx) ==
  IF r > Len(E) THEN col_idx
  ELSE LET u == E[r].u
       IN Scatter(E, r + 1, [head EXCEPT ![u] = @ + 1],
                  [col_idx EXCEPT ![head[u]] = E[r].v])

\* A return on a failure path: the code, the blocks released, f closed.
LoadFail(f, code) ==
  [f EXCEPT !.pc = "done", !.ret = code, !.live = {}, !.file_open = FALSE]

\* The call parameters: symmetrize and drop_self_loops.
LoadInit ==
  /\ G = BuildCSR(0, {})
  /\ SeqBfsIdle
  /\ ParIdle
  /\ harness = HarnessInit
  /\ fr = FrontIdle
  /\ trace = TraceInit
  /\ af = AfIdle
  /\ cu = CountIdle
  /\ \E symmetrize \in BOOLEAN, drop_self_loops \in BOOLEAN :
       ld = LoadFrame(symmetrize, drop_self_loops)

\* memset(out, 0, ...); f = fopen(path, "r"); return 1 when it fails.
LoadOpen ==
  /\ ld.pc = "call"
  /\ \E ok \in BOOLEAN :
       ld' = IF ok THEN [ld EXCEPT !.pc = "banner", !.out = ZeroGraph, !.file_open = TRUE]
             ELSE [LoadFail(ld, 1) EXCEPT !.out = ZeroGraph]
  /\ UNCHANGED <<G, af, fr, trace, cu, harness, seqVars, bfsVars, parVars>>

\* mm_read_banner: return 2 when it fails.
LoadBanner ==
  /\ ld.pc = "banner"
  /\ \E ok \in BOOLEAN :
       ld' = IF ok THEN [ld EXCEPT !.pc = "type"] ELSE LoadFail(ld, 2)
  /\ UNCHANGED <<G, af, fr, trace, cu, harness, seqVars, bfsVars, parVars>>

\* return 3 unless the banner says matrix and coordinate; the banner's
\* symmetry field gives symmetric_in_file.
LoadType ==
  /\ ld.pc = "type"
  /\ \E is_matrix \in BOOLEAN, is_coordinate \in BOOLEAN, symmetric \in BOOLEAN :
       ld' = IF is_matrix /\ is_coordinate
               THEN [ld EXCEPT !.pc = "size", !.symmetric_in_file = symmetric]
               ELSE LoadFail(ld, 3)
  /\ UNCHANGED <<G, af, fr, trace, cu, harness, seqVars, bfsVars, parVars>>

\* Mutant of EdgeCapacity: the buffer is never doubled.
EdgeCapacitySingle(f, nz) == nz

\* cap = nz * (symmetric_in_file || symmetrize ? 2 : 1)
EdgeCapacity(f, nz) == nz * (IF f.symmetric_in_file \/ f.symmetrize THEN 2 ELSE 1)

\* mm_read_mtx_crd_size: return 4 when it fails; n = max(M, N); cap.
LoadSize ==
  /\ ld.pc = "size"
  /\ \/ ld' = LoadFail(ld, 4)
     \/ \E M \in 0..MaxDim, N \in 0..MaxDim, nz \in 0..MaxNz :
          ld' = [ld EXCEPT !.pc = "alloc_E", !.M = M, !.N = N, !.nz = nz,
                           !.n = IF M > N THEN M ELSE N,
                           !.cap = EdgeCapacity(ld, nz)]
  /\ UNCHANGED <<G, af, fr, trace, cu, harness, seqVars, bfsVars, parVars>>

\* E = malloc(sizeof(Edge) * cap): return 5 when it fails.
LoadAllocE ==
  /\ ld.pc = "alloc_E"
  /\ \E ok \in BOOLEAN :
       ld' = IF ok THEN [ld EXCEPT !.pc = "read", !.live = {"E"}, !.k = 0, !.m = 0]
             ELSE LoadFail(ld, 5)
  /\ UNCHANGED <<G, af, fr, trace, cu, harness, seqVars, bfsVars, parVars>>

\* One iteration of the ingest loop on a record that fscanf could parse.
LoadRecord ==
  /\ ld.pc = "read"
  /\ ld.k < ld.nz
  /\ \E fi \in 0..(MaxDim + 1), fj \in 0..(MaxDim + 1) :
       LET E == Ingest(ld, fi, fj)
       IN ld' = [ld EXCEPT !.E = E, !.m = Len(E), !.k = @ + 1,
                           !.skipped = IF InRange(fi - 1, fj - 1, ld.n) THEN @ ELSE @ + 1,
                           !.last = <<fi - 1, fj - 1>>]
  /\ UNCHANGED <<G, af, fr, trace, cu, harness, seqVars, bfsVars, parVars>>

\* The loop ends (k == nz, or fscanf fails and the loop breaks); fclose(f).
LoadReadEnd ==
  /\ ld.pc = "read"
  /\ ld' = [ld EXCEPT !.pc = "sort", !.file_open = FALSE, !.ingested = ld.E, !.last = <<>>]
  /\ UNCHANGED <<G, af, fr, trace, cu, harness, seqVars, bfsVars, parVars>>

\* qsort(E, m, sizeof(Edge), cmp_edge).
LoadSort ==
  /\ ld.pc = "sort"
  /\ ld' = [ld EXCEPT !.pc = "dedup", !.E = qsort_edges(ld.E)]
  /\ UNCHANGED <<G, af, fr, trace, cu, harness, seqVars, bfsVars, parVars>>

\* dedup_edges(E, &m, drop_self_loops).
LoadDedup ==
  /\ ld.pc = "dedup"
  /\ LET E == dedup_edges(ld.E, ld.drop_self_loops)
     IN ld' = [ld EXCEPT !.pc = "alloc_row", !.E = E, !.m = Len(E)]
  /\ UNCHANGED <<G, af, fr, trace, cu, harness, seqVars, bfsVars, parVars>>

\* row_ptr = calloc(n + 1): return 6 when it fails; count and prefix sum.
LoadAllocRow ==
  /\ ld.pc = "alloc_row"
  /\ \E ok \in BOOLEAN :
       ld' = IF ok
               THEN [ld EXCEPT !.pc = "alloc_col", !.live = @ \cup {"row_ptr"},
                               !.row_ptr = PrefixSum(RowCounts(ld.E, ld.n), 0, ld.n)]
               ELSE LoadFail(ld, 6)
  /\ UNCHANGED <<G, af, fr, trace, cu, harness, seqVars, bfsVars, parVars>>

\* col_idx = malloc(sizeof(int32_t) * m): return 7 when it fails.
LoadAllocCol ==
  /\ ld.pc = "alloc_col"
  /\ \E ok \in BOOLEAN :
       ld' = IF ok
               THEN [ld EXCEPT !.pc = "alloc_head", !.live = @ \cup {"col_idx"},
                               !.col_idx = [k \in 0..ld.m-1 |-> -1]]
               ELSE LoadFail(ld, 7)
  /\ UNCHANGED <<G, af, fr, trace, cu, harness, seqVars, bfsVars, parVars>>

\* head = malloc(sizeof(int64_t) * n): return 8 when it fails; else copy
\* row_ptr into head, scatter, free(head), free(E), fill *out, return 0.
LoadFill ==
  /\ ld.pc = "alloc_head"
  /\ \E ok \in BOOLEAN :
       ld' = IF ok
               THEN LET col_idx == Scatter(ld.E, 1, [i \in 0..ld.n-1 |-> ld.row_ptr[i]],
                                           ld.col_idx)
                    IN [ld EXCEPT !.pc = "done", !.ret = 0, !.col_idx = col_idx,
                                  !.live = {"row_ptr", "col_idx"},
                                  !.out_set = {"row_ptr", "col_idx"},
                                  !.out = [n |-> ld.n, m |-> ld.m,
                                           row_ptr |-> ld.row_ptr, col_idx |-> col_idx]]
               ELSE LoadFail(ld, 8)
  /\ UNCHANGED <<G, af, fr, trace, cu, harness, seqVars, bfsVars, parVars>>

LoadNext ==
  \/ LoadOpen
  \/ LoadBanner
  \/ LoadType
  \/ LoadSize
  \/ LoadAllocE
  \/ LoadRecord
  \/ LoadReadEnd
  \/ LoadSort
  \/ LoadDedup
  \/ LoadAllocRow
  \/ LoadAllocCol
  \/ LoadFill

SpecLoad == LoadInit /\ [][LoadNext]_vars

\* ---------------------------------------------------- count_unique_labels
\* Label vectors of length n with every value in [0, n).
LabelVectors(n) == [0..n-1 -> 0..n-1]

\* The call parameters: a label vector with values in [0, n) and its length.
CountInit ==
  /\ G = BuildCSR(0, {})
  /\ SeqBfsIdle
  /\ ParIdle
  /\ harness = HarnessInit
  /\ fr = FrontIdle
  /\ trace = TraceInit
  /\ af = AfIdle
  /\ ld = LoadIdle
  /\ \E n \in 0..MaxCountN : \E labels \in LabelVectors(n) : cu = CountFrame(labels, n)

\* unique_flags = calloc(n, sizeof(int32_t)); exit(EXIT_FAILURE) when it
\* fails; unique_count = 0.
CountAlloc ==
  /\ cu.pc = "call"
  /\ \E ok \in BOOLEAN :
       cu' = IF ok
               THEN [cu EXCEPT !.pc = "for", !.unique_flags = Fill(cu.n, 0),
                               !.unique_count = 0, !.i = 0, !.live = {"unique_flags"}]
               ELSE [cu EXCEPT !.pc = "exit"]
  /\ UNCHANGED <<G, af, fr, trace, ld, harness, seqVars, bfsVars, parVars>>

\* Mutant of FirstSight: the flag is not looked at.
FirstSightAlways(unique_flags, label) == TRUE

\* if (!unique_flags[labels[i]])
FirstSight(unique_flags, label) == unique_flags[label] = 0

\* One iteration of the sweep over labels.
CountStep ==
  /\ cu.pc = "for"
  /\ cu.i < cu.n
  /\ LET label == cu.labels[cu.i]
     IN cu' = IF FirstSight(cu.unique_flags, label)
                THEN [cu EXCEPT !.unique_flags = [@ EXCEPT ![label] = 1],
                                !.unique_count = @ + 1, !.i = @ + 1]
                ELSE [cu EXCEPT !.i = @ + 1]
  /\ UNCHANGED <<G, af, fr, trace, ld, harness, seqVars, bfsVars, parVars>>

\* free(unique_flags); return unique_count.
CountReturn ==
  /\ cu.pc = "for"
  /\ cu.i >= cu.n
  /\ cu' = [cu EXCEPT !.pc = "done", !.ret = cu.unique_count, !.live = {}]
  /\ UNCHANGED <<G, af, fr, trace, ld, harness, seqVars, bfsVars, parVars>>

CountNext ==
  \/ CountAlloc
  \/ CountStep
  \/ CountReturn

SpecCount == CountInit /\ [][CountNext]_vars

\* --------------------------------------------------- connectivity oracle
\* The vertices joined to the set S by a path.
RECURSIVE Grow(_, _)
Grow(g, S) ==
  LET T == S \cup UNION {Neighbors(g, u) : u \in S}
  IN IF T = S THEN S ELSE Grow(g, T)

Component(g, v) == Grow(g, {v})

CompMin(g, v) == Min(Component(g, v))

Components(g) == {Component(g, v) : v \in 0..g.n-1}

\* canonicalize(labels, n) of the label utilities: dense ids 0,1,2,... in
\* order of first appearance by vertex index.
Canonicalize(labels, n) ==
  LET First(x) == Min({i \in 0..n-1 : labels[i] = x})
      Firsts == {First(labels[w]) : w \in 0..n-1}
  IN [v \in 0..n-1 |-> Cardinality({f \in Firsts : f < First(labels[v])})]

\* The label vector the sequential LP kernel ends with (its `labels`).
SeqTerminated == seq_pc \in {"exit", "done"}

SeqFinal == seq_mem[seq_labels]

\* C3: when the sequential LP+frontier kernel terminates, its label vector
\* gives both ends of every stored edge the same label, and every vertex the
\* minimum vertex id of its connected component.
C3_SeqLabelsAreComponentMin ==
  SeqTerminated =>
    /\ \A u \in 0..G.n-1 : \A v \in Neighbors(G, u) : SeqFinal[u] = SeqFinal[v]
    /\ \A v \in 0..G.n-1 : SeqFinal[v] = CompMin(G, v)

\* A run of three rounds on a four-vertex graph in which labels were lowered.
C3_Witness ==
  /\ seq_pc = "done"
  /\ G.n = 4
  /\ seq_rounds >= 3
  /\ \E v \in 0..G.n-1 : SeqFinal[v] < v

\* C4: when the BFS kernel returns, no label is -1, the label values are
\* exactly 0..k-1 for k the number of connected components, and two vertices
\* share a label iff a path connects them.
C4_BfsLabelsDenseAndExact ==
  bfs_pc = "done" =>
    /\ \A v \in 0..G.n-1 : bfs_labels[v] # -1
    /\ {bfs_labels[v] : v \in 0..G.n-1} = 0 .. (Cardinality(Components(G)) - 1)
    /\ \A u, v \in 0..G.n-1 :
         (bfs_labels[u] = bfs_labels[v]) <=> (v \in Component(G, u))

\* BFS returned on a four-vertex graph with edges and several components.
C4_Witness ==
  /\ bfs_pc = "done"
  /\ G.n = 4
  /\ G.m > 0
  /\ Cardinality(Components(G)) = 2
  /\ bfs_labels[3] = 1

C9_CallerArrayHoldsFinalLabels ==
  seq_pc = "done" =>
    /\ seq_heap["caller"] = "caller"
    /\ \A v \in 0..G.n-1 : seq_mem["caller"][v] = CompMin(G, v)

\* C10: on return every kernel has released each buffer it allocated exactly
\* once and no buffer it did not allocate; the sequential LP+frontier kernel
\* never frees the caller's label array.
C10_BuffersReleasedExactlyOnce ==
  (bfs_pc = "done" /\ seq_pc = "done") =>
    /\ seq_frees["caller"] = 0
    /\ \A b \in SeqBuffers \ {"caller"} : seq_frees[b] = 1
    /\ bfs_frees = 1


\* ------------------------------------------------- parallel LP kernels
PoolReturned == par_pc = "returned" /\ \A t \in Threads : thr[t].pc = "done"

LoopReturned == par_pc = "returned" /\ \A t \in Threads : thr[t].pc = "joined"

\* Every stored edge joins two vertices of equal label.
EdgesEqualised(lab) ==
  \A u \in 0..G.n-1 : \A v \in Neighbors(G, u) : lab[u] = lab[v]

\* C1: when the thread-pool kernel returns, labels[v] is the minimum vertex
\* id of v's component, for every graph, thread count, chunk size and
\* interleaving of the workers (so the result does not depend on them).
C1_PoolLabelsAreComponentMin ==
  par_pc = "returned" /\ (\A t \in Threads : thr[t].pc = "done")
    => \A v \in 0..G.n-1 : par_labels[v] = CompMin(G, v)

\* The pool returned after three rounds of two workers on dynamic chunks,
\* with a label lowered in the second round.
C1_Witness ==
  /\ PoolReturned
  /\ num_threads = 2 /\ chunk_size = 2 /\ G.n = 4
  /\ par_rounds = 3
  /\ \E v \in 0..G.n-1 : par_labels[v] < v

\* C2: when a loop-parallel kernel (OpenMP or Cilk, atomic version) returns,
\* labels[v] is the minimum vertex id of v's component, for every graph and
\* every assignment and interleaving of the loop's chunks among the workers.
C2_LoopLabelsAreComponentMin ==
  par_pc = "returned" /\ (\A t \in Threads : thr[t].pc = "joined")
    => \A v \in 0..G.n-1 : par_labels[v] = CompMin(G, v)

\* The loop kernel returned after three rounds of two workers on chunks of
\* one iteration.
C2_Witness ==
  /\ LoopReturned
  /\ num_threads = 2 /\ chunk_size = 1 /\ G.n = 4
  /\ par_rounds = 3
  /\ \E v \in 0..G.n-1 : par_labels[v] < v

\* C6: whenever the changed flag holds the sentinel -1 stored by thread 0,
\* no worker lowered a label during the round just finished and the two ends
\* of every stored edge carry the same label.
C6_NoFalseConvergence ==
  par_pc = "running" /\ changed = -1
    => ~round_lowered /\ EdgesEqualised(atomic_labels)

\* Thread 0 has stored the sentinel after two label-lowering rounds and a
\* quiet one, with two workers.
C6_Witness ==
  /\ par_pc = "running" /\ changed = -1
  /\ num_threads = 2 /\ par_rounds = 3 /\ G.m > 0
  /\ thr[0].pc = "bar3"

\* C7: under fair scheduling the pool kernel returns: every worker leaves
\* its round loop and the caller joins them.
C7_PoolTerminates == <>(par_pc = "returned")

\* The pool returned after at least two rounds in static mode with two
\* workers.
C7_Witness ==
  /\ PoolReturned
  /\ num_threads = 2 /\ chunk_size = 1
  /\ par_rounds >= 2 /\ G.m > 0

\* C8: no step raises an entry of the atomic label array: every step that
\* changes atomic_labels[v] stores a strictly smaller value.
C8_LabelsOnlyDecrease ==
  [][\A v \in DOMAIN atomic_labels :
       atomic_labels'[v] # atomic_labels[v] => atomic_labels'[v] < atomic_labels[v]]_vars

\* A label was lowered by a CAS in the second round of the pool.
C8_Witness ==
  /\ par_pc = "running" /\ thr # <<>>
  /\ par_rounds = 1 /\ round_lowered
  /\ \E v \in 0..G.n-1 : atomic_labels[v] < v


\* ------------------------------------------------------- harness reruns
\* C11: a second run of a kernel on the same graph and the same label array
\* completes and leaves the label vector its first run left.
C11_RerunYieldsSameLabels ==
  /\ seq_pc # "undefined"
  /\ seq_pc = "done" /\ harness.seq_runs >= 2
       => seq_heap["caller"] = "caller" /\ seq_mem["caller"] = harness.seq_first
  /\ bfs_pc = "done" /\ harness.bfs_runs >= 2 => bfs_labels = harness.bfs_first


\* ----------------------------------------------------------- CSR builder
\* The builder returned 0 and filled *out.
LoadSucceeded == ld.pc = "done" /\ ld.ret = 0

\* Both indices of every record of the edge buffer are vertices.
EdgesInRange == \A r \in 1..Len(ld.E) : ld.E[r].u \in 0..ld.n-1 /\ ld.E[r].v \in 0..ld.n-1

\* C12: a graph the builder returns has row_ptr[0] = 0, row_ptr ascending,
\* row_ptr[n] = m, n = max(M, N) and every col_idx entry in [0, n); a record
\* with an index outside [0, n) puts nothing into the edge buffer.
C12_CsrWellFormed ==
  /\ ld.pc \in {"read", "sort", "dedup"} =>
       /\ EdgesInRange
       /\ Len(ld.E) <= 2 * (ld.k - ld.skipped)
  /\ LoadSucceeded =>
       LET g == ld.out IN
       /\ g.n = (IF ld.M > ld.N THEN ld.M ELSE ld.N)
       /\ DOMAIN g.row_ptr = 0..g.n /\ DOMAIN g.col_idx = 0..g.m-1
       /\ g.row_ptr[0] = 0
       /\ \A i \in 0..g.n-1 : g.row_ptr[i] <= g.row_ptr[i + 1]
       /\ g.row_ptr[g.n] = g.m
       /\ \A k \in 0..g.m-1 : g.col_idx[k] \in 0..g.n-1

\* A graph with M < N built from three records, one of them out of range.
C12_Witness ==
  /\ LoadSucceeded
  /\ ld.M < ld.N /\ ld.k = 3 /\ ld.skipped = 1
  /\ ld.out.m >= 2

\* C13: a graph built with symmetrize set has undirected closure.
C13_UndirectedClosure ==
  LoadSucceeded /\ ld.symmetrize =>
    \A u \in 0..ld.out.n-1 : \A v \in Neighbors(ld.out, u) :
      v # u => u \in Neighbors(ld.out, v)

\* A graph built with symmetrize set from a general (not symmetric) file
\* whose records name each edge once.
C13_Witness ==
  /\ LoadSucceeded
  /\ ld.symmetrize /\ ~ld.symmetric_in_file
  /\ ld.out.m = 4 /\ ld.k = 2 /\ ld.skipped = 0

\* C14: in a graph built with drop_self_loops set every adjacency slice is
\* strictly ascending and does not hold its own vertex.
C14_SlicesStrictlyAscending ==
  LoadSucceeded /\ ld.drop_self_loops =>
    \A u \in 0..ld.out.n-1 : \A j \in Slice(ld.out, u) :
      /\ ld.out.col_idx[j] # u
      /\ j + 1 \in Slice(ld.out, u) => ld.out.col_idx[j] < ld.out.col_idx[j + 1]

\* The ingested records held a self-loop and a repeated record, in
\* descending order, and edges came out.
C14_Witness ==
  /\ LoadSucceeded /\ ld.drop_self_loops
  /\ \E r \in 1..Len(ld.ingested) : ld.ingested[r].u = ld.ingested[r].v
  /\ \E r, q \in 1..Len(ld.ingested) : r < q /\ ld.ingested[r] = ld.ingested[q]
  /\ \E r, q \in 1..Len(ld.ingested) : r < q /\ cmp_edge(ld.ingested[r], ld.ingested[q]) > 0
  /\ ld.out.m >= 2

\* The records (1-based) read off a CSR graph by walking its slices.
WalkRecords(g) ==
  [k \in 1..g.m |->
     LET u == CHOOSE x \in 0..g.n-1 : (k - 1) \in Slice(g, x)
     IN <<u + 1, g.col_idx[k - 1] + 1>>]

\* The ingest loop over a sequence of records.
RECURSIVE IngestAll(_, _, _)
IngestAll(f, recs, k) ==
  IF k > Len(recs) THEN f.E
  ELSE IngestAll([f EXCEPT !.E = Ingest(f, recs[k][1], recs[k][2])], recs, k + 1)

\* The graph the builder makes, with both flags set, of the walk of g.
Rebuilt(g) ==
  LET f == [LoadFrame(TRUE, TRUE) EXCEPT !.n = g.n]
      E == dedup_edges(qsort_edges(IngestAll(f, WalkRecords(g), 1)), TRUE)
      row_ptr == PrefixSum(RowCounts(E, g.n), 0, g.n)
      col_idx == Scatter(E, 1, [i \in 0..g.n-1 |-> row_ptr[i]],
                         [k \in 0..Len(E)-1 |-> -1])
  IN [n |-> g.n, m |-> Len(E), row_ptr |-> row_ptr, col_idx |-> col_idx]

\* C15: building, with both flags set, from the walk of a graph built with
\* both flags set gives the same n, m, row_ptr and col_idx.
C15_RoundTrip ==
  LoadSucceeded /\ ld.symmetrize /\ ld.drop_self_loops => Rebuilt(ld.out) = ld.out

\* A triangle built with both flags set.
C15_Witness ==
  /\ LoadSucceeded /\ ld.symmetrize /\ ld.drop_self_loops
  /\ ld.out.n = 3 /\ ld.out.m = 6

\* C16: the builder returns 0 only with a complete graph; on every other
\* return the code is not 0 and *out is zeroed; while the builder runs *out
\* holds no partial graph.
C16_FailureLeavesOutZeroed ==
  /\ ld.pc \notin {"idle", "call"} /\ ~LoadSucceeded =>
       /\ ld.out.n = 0 /\ ld.out.m = 0
       /\ ld.out_set = {}
  /\ ld.pc = "done" /\ ld.ret # 0 => ld.ret \in 1..8
  /\ LoadSucceeded =>
       /\ ld.out_set = {"row_ptr", "col_idx"}
       /\ ld.live = {"row_ptr", "col_idx"}

\* The allocation of head failed after row_ptr and col_idx were built from
\* a non-empty edge list.
C16_Witness ==
  /\ ld.pc = "done" /\ ld.ret = 8
  /\ ld.m >= 2 /\ ld.row_ptr # <<>> /\ ld.col_idx # <<>>
  /\ ld.out.n = 0 /\ ld.out_set = {}


\* ------------------------------------------- thread pool: work division
\* Largest n and T for which the static blocks are enumerated.
MaxBlockN == 6
MaxBlockT == 8

\* The block of thread t for n vertices and T threads: [start, end) with
\* start = t * static_block and end = start + static_block, both clipped to n.
BlockOf(n, T, t) ==
  LET sb == StaticBlockOf(n, T)
      start == IF t * sb > n THEN n ELSE t * sb
      end == IF t * sb + sb > n THEN n ELSE t * sb + sb
  IN start .. (end - 1)

\* The position of a worker inside a call of relax_vertex_label.
RelaxPcs == {"relax", "scan", "cas", "push", "push_cas"}

\* Thread 0 is about to store into changed: every worker has passed the
\* second barrier of the round.
RoundWorkDone == par_pc = "running" /\ thr[0].pc = "signal"

\* C17: static mode. The clipped blocks of the T threads are pairwise
\* disjoint and cover [0, n), also when T > n; a worker relaxes vertices of
\* its own block only, every vertex is relaxed exactly once per round, and
\* next_vertex is left alone.
C17_StaticBlocksPartition ==
  /\ par_pc = "entry" =>
       \A n \in 0..MaxBlockN : \A T \in 1..MaxBlockT :
         /\ \A t \in 0..T-1 : BlockOf(n, T, t) \subseteq 0..n-1
         /\ \A v \in 0..n-1 : Cardinality({t \in 0..T-1 : v \in BlockOf(n, T, t)}) = 1
  /\ par_pc = "running" /\ ~chunking_enabled =>
       /\ next_vertex = 0
       /\ \A t \in Threads :
            /\ block_start(t) .. (block_end(t) - 1) = BlockOf(G.n, num_threads, t)
            /\ thr[t].pc \in RelaxPcs => thr[t].u \in BlockOf(G.n, num_threads, t)
       /\ \A v \in 0..G.n-1 : relaxed[v] <= 1
       /\ RoundWorkDone => \A v \in 0..G.n-1 : relaxed[v] = 1

\* The end of the second round of two workers in static mode on three
\* vertices (blocks of two and of one vertex).
C17_Witness ==
  /\ RoundWorkDone /\ ~chunking_enabled
  /\ num_threads = 2 /\ G.n = 3 /\ par_rounds = 1
  /\ \A v \in 0..G.n-1 : relaxed[v] = 1

\* ceil(n / c)
CeilDiv(n, c) == (n + c - 1) \div c

\* C18: dynamic mode. A worker inside a chunk holds [k*c, min((k+1)*c, n))
\* for some k, no two workers hold the same chunk, every vertex is relaxed
\* exactly once per round, and a round makes exactly ceil(n/c) fetches with
\* start < n (and one with start >= n per worker).
C18_DynamicChunksPartition ==
  par_pc = "running" /\ chunking_enabled =>
    /\ next_vertex % chunk_size = 0
    /\ \A t \in Threads : thr[t].pc \in RelaxPcs =>
         /\ thr[t].u < G.n
         /\ thr[t].end = ClipN((thr[t].u \div chunk_size) * chunk_size + chunk_size)
         /\ \A x \in Threads \ {t} : thr[x].pc \in RelaxPcs =>
              thr[x].u \div chunk_size # thr[t].u \div chunk_size
    /\ \A v \in 0..G.n-1 : relaxed[v] <= 1
    /\ RoundWorkDone =>
         /\ \A v \in 0..G.n-1 : relaxed[v] = 1
         /\ next_vertex = chunk_size * (CeilDiv(G.n, chunk_size) + num_threads)

\* The end of the second round of two workers on chunks of two vertices, the
\* last chunk holding one vertex.
C18_Witness ==
  /\ RoundWorkDone /\ chunking_enabled
  /\ num_threads = 2 /\ chunk_size = 2 /\ G.n = 3 /\ par_rounds = 1
  /\ \A v \in 0..G.n-1 : relaxed[v] = 1

\* The workers have just passed the first barrier of a round: nobody has
\* fetched work or relaxed a vertex yet.
RoundJustStarted ==
  /\ par_pc = "running"
  /\ \A t \in Threads : thr[t].pc = "work" /\ ~thr[t].waiting
  /\ \A v \in 0..G.n-1 : relaxed[v] = 0

\* C20: when the workers have passed the first barrier of a round, the
\* first round included, and none has relaxed a vertex, next_vertex and the
\* changed flag both hold 0.
C20_RoundStartsWithFlagsClear ==
  RoundJustStarted => next_vertex = 0 /\ changed = 0


\* ---------------------------------------------------- label utilities
\* C19: count_unique_labels returns the number of distinct values of
\* labels[0..n-1] and leaves the vector as it was.
C19_CountIsNumberOfDistinctLabels ==
  cu.pc = "done" =>
    /\ cu.ret = Cardinality({cu.labels_in[i] : i \in 0..cu.n-1})
    /\ cu.labels = cu.labels_in

\* The count of a vector of four labels that holds a repeated value after a
\* different one (2 distinct values or 3).
C19_Witness ==
  /\ cu.pc = "done" /\ cu.n = 4
  /\ cu.ret \in {2, 3}
  /\ cu.labels[0] # cu.labels[1] /\ cu.labels[2] = cu.labels[0]


\* ------------------------------------------- thread pool: round protocol
\* The stretch of the round loop a worker is in: "A" from the third barrier
\* of a round to the first barrier of the next (or to its exit), "B" from
\* the first barrier to the second, "C" from the second to the third. A
\* worker blocked in a barrier has not passed it yet.
Stretch(w) ==
  CASE w.pc = "done"                              -> "A"
    [] w.pc \in {"reset", "bar1"}                  -> "A"
    [] w.pc = "test"                               -> IF w.waiting THEN "C" ELSE "A"
    [] w.pc = "work"                               -> IF w.waiting THEN "A" ELSE "B"
    [] w.pc \in RelaxPcs \cup {"mark", "bar2"}     -> "B"
    [] w.pc = "check"                              -> IF w.waiting THEN "B" ELSE "C"
    [] w.pc \in {"signal", "bar3"}                 -> "C"

\* C21: after the third barrier either every worker reads -1 and leaves, or
\* none does; no worker is left blocked at a barrier the others will not
\* reach, and all workers are always in the same stretch of the same round.
C21_UnanimousExit ==
  par_pc = "running" =>
    /\ \A t, x \in Threads : Stretch(thr[t]) = Stretch(thr[x])
    /\ (\E t \in Threads : thr[t].pc = "done") =>
         /\ changed = -1
         /\ \A x \in Threads : thr[x].pc \in {"test", "done"} /\ ~thr[x].waiting
    /\ (\E t \in Threads : thr[t].pc \in {"reset", "bar1"}) =>
         /\ changed # -1
         /\ \A x \in Threads : thr[x].pc # "done"
    /\ \/ \A t \in Threads : thr[t].pc = "done"
       \/ \E t \in Threads : thr[t].pc # "done" /\ ~thr[t].waiting
    /\ ENABLED PoolNext

\* After three rounds one of two workers has read the sentinel and left,
\* the other is about to read it.
C21_Witness ==
  /\ par_pc = "running" /\ num_threads = 2 /\ par_rounds = 3
  /\ thr[0].pc = "test" /\ ~thr[0].waiting
  /\ thr[1].pc = "done"


\* A worker is inside the work loop of a round: about to fetch, or relaxing
\* the vertices of a chunk.
InWorkLoop(w) == (w.pc = "work" /\ ~w.waiting) \/ w.pc \in RelaxPcs

\* The same for a worker of the frontier pool.
InFrontWorkLoop(w) == w.pc \in {"fwork", "frelax"}

\* C22: dynamic mode of both thread pools. While the leader has its store
\* of 0 into next_vertex ahead of it, or has made it and not yet passed the
\* barrier that follows, no worker is inside the work loop, so no fetch_add
\* can run beside the store; and the workers that start a round find
\* next_vertex = 0, so the first fetch_add of the round returns 0.
C22_ResetNeverOverlapsFetch ==
  /\ par_pc = "running" /\ chunking_enabled =>
       /\ thr[0].pc \in {"reset", "bar1"} =>
            \A x \in Threads : ~InWorkLoop(thr[x]) /\ ~ENABLED PoolFetch(x)
       /\ (\E x \in Threads : InWorkLoop(thr[x])) =>
            thr[0].pc \notin {"reset", "bar1", "test", "done"}
       /\ RoundJustStarted => next_vertex = 0
  /\ par_pc = "frunning" =>
       /\ (thr[0].pc = "fphase2" /\ ~thr[0].waiting) \/ thr[0].pc = "fbar2" =>
            \A x \in Threads : ~InFrontWorkLoop(thr[x]) /\ ~ENABLED FrontFetch(x)
       /\ FrontRoundStart => next_vertex = 0

\* The second round of two workers is about to start: the leader resets
\* next_vertex, which the fetches of the first round left at
\* chunk * (ceil(n/chunk) + T), while the other worker waits in the barrier.
C22_Witness ==
  /\ par_pc = "running" /\ chunking_enabled /\ num_threads = 2
  /\ par_rounds = 1 /\ G.n = 3 /\ chunk_size = 2
  /\ thr[0].pc = "reset" /\ next_vertex = 8
  /\ thr[1].pc = "work" /\ thr[1].waiting


\* ------------------------------------------- thread pool: label bounds
\* C23: in every state of the pool each label lies between the smallest
\* vertex id of its vertex's component and the vertex's own id, and is the
\* id of a vertex of that component.
C23_LabelsStayInComponent ==
  par_pc \in {"running", "returned"} =>
    \A v \in 0..G.n-1 :
      /\ CompMin(G, v) <= atomic_labels[v]
      /\ atomic_labels[v] <= v
      /\ atomic_labels[v] \in Component(G, v)
      /\ par_pc = "returned" => par_labels[v] = atomic_labels[v]

\* A round in flight on a graph of four vertices: vertex 3 holds a label
\* that is neither its own id nor yet the minimum of its component, while a
\* worker is in the push loop of another vertex.
C23_Witness ==
  /\ par_pc = "running" /\ G.n = 4
  /\ CompMin(G, 3) < atomic_labels[3] /\ atomic_labels[3] < 3
  /\ \E t \in Threads : thr[t].pc \in {"push", "push_cas"} /\ thr[t].u # 3


\* ------------------------------------------------ frontier LP kernels
\* The bitmap that plays a role after k exchanges, given the one that played
\* it at the start.
RoleAfter(k, first) ==
  IF k % 2 = 0 THEN first ELSE IF first = "fa" THEN "fb" ELSE "fa"

\* The sequential kernel is at the top of its while loop: a round is about
\* to start, or the loop is about to end.
SeqRoundStart == seq_pc = "while"

\* C24: in the sequential kernel and in the frontier pool, active is all
\* ones at the start of the first round, next_active is all zeros at the
\* start of every round, and the two bitmaps have exchanged roles once for
\* every round that continued.
C24_FrontierBitmaps ==
  /\ SeqRoundStart =>
       /\ seq_rounds = 0 => \A v \in 0..G.n-1 : seq_mem[seq_active][v] = 1
       /\ \A v \in 0..G.n-1 : seq_mem[seq_next_active][v] = 0
       /\ seq_active = RoleAfter(seq_rounds, "fa")
       /\ seq_next_active = RoleAfter(seq_rounds, "fb")
  /\ FrontRoundStart =>
       /\ par_rounds = 0 => \A v \in 0..G.n-1 : fr.mem[fr.active][v] = 1
       /\ \A v \in 0..G.n-1 : fr.mem[fr.next_active][v] = 0
       /\ fr.active = RoleAfter(par_rounds, "fa")
       /\ fr.next_active = RoleAfter(par_rounds, "fb")

\* The pool has returned after more than two rounds and the sequential
\* kernel is about to start its third round: the bitmap that was all ones in
\* the first round is the frontier again and holds both a 0 and a 1.
C24_Witness ==
  /\ par_pc = "freturned" /\ par_rounds >= 3
  /\ SeqRoundStart /\ seq_rounds = 2 /\ seq_changed = 1
  /\ seq_active = "fa"
  /\ \E u, v \in 0..G.n-1 : seq_mem["fa"][u] = 0 /\ seq_mem["fa"][v] = 1


\* No neighbour of u holds a lower label than u in the label vector lab.
NoLowerNeighbor(lab, u) == \A v \in Neighbors(G, u) : lab[u] <= lab[v]

\* C25: at the start of every round of a frontier kernel every inactive
\* vertex holds a label no greater than the label of any neighbour, and the
\* neighbour scan of a vertex the sequential loop skips would have found
\* nothing lower than the label it holds.
C25_InactiveVerticesAreSettled ==
  /\ SeqRoundStart =>
       \A u \in 0..G.n-1 :
         seq_mem[seq_active][u] = 0 => NoLowerNeighbor(seq_mem[seq_labels], u)
  /\ seq_pc = "for" /\ seq_u < G.n /\ seq_mem[seq_active][seq_u] = 0 =>
       LET lab == seq_mem[seq_labels] IN
       ScanMin(G, lab, G.row_ptr[seq_u], G.row_ptr[seq_u + 1], lab[seq_u]) = lab[seq_u]
  /\ FrontRoundStart =>
       \A u \in 0..G.n-1 :
         fr.mem[fr.active][u] = 0 => NoLowerNeighbor(fr.mem[fr.labels], u)

\* The sequential loop is about to skip an inactive vertex that has a
\* neighbour, in a round in which another vertex is still active.
C25_Witness ==
  /\ seq_pc = "for" /\ seq_u < G.n
  /\ seq_mem[seq_active][seq_u] = 0
  /\ Neighbors(G, seq_u) # {}
  /\ \E v \in 0..G.n-1 : seq_mem[seq_active][v] = 1


\* The label vector one synchronous round makes of lab: every vertex takes
\* the lowest label of its closed neighbourhood.
FullRound(lab) ==
  [u \in 0..G.n-1 |-> ScanMin(G, lab, G.row_ptr[u], G.row_ptr[u + 1], lab[u])]

\* The buffer `written` by a round that read `lab` through the frontier
\* `bits` is complete: it is the whole label vector after the round, and the
\* entry of a vertex the round skipped, left from an earlier round, is the
\* label the vertex holds.
WrittenComplete(written, lab, bits) ==
  /\ written = FullRound(lab)
  /\ \A u \in 0..G.n-1 : bits[u] = 0 => written[u] = lab[u]

\* The vertex loop of the sequential kernel has ended and the pointers are
\* not yet swapped.
SeqRoundEnd == seq_pc = "for" /\ seq_u >= G.n

\* Every worker of the frontier pool has passed the first barrier of the
\* round and the leader has not yet run phase 2.
FrontRoundEnd ==
  par_pc = "frunning" /\ thr[0].pc = "fphase2" /\ ~thr[0].waiting

\* The parallel loop of a round of the OpenMP frontier kernel has ended.
OmpLoopEnded == par_pc = "oloop" /\ loop_pending = {}

\* C26: at the end of every round of a frontier kernel the buffer written
\* in the round holds the complete label vector, the stale entries of the
\* skipped vertices included, and when the kernel leaves its round loop the
\* two label buffers hold the same contents.
C26_WrittenBufferIsComplete ==
  /\ SeqRoundEnd =>
       WrittenComplete(seq_mem[seq_new_labels], seq_mem[seq_labels], seq_mem[seq_active])
  /\ seq_pc = "exit" => seq_mem[seq_labels] = seq_mem[seq_new_labels]
  /\ FrontRoundEnd =>
       WrittenComplete(fr.mem[fr.new_labels], fr.mem[fr.labels], fr.mem[fr.active])
  /\ par_pc \in {"frunning", "freturned"} /\ fr.done = 1 =>
       fr.mem[fr.labels] = fr.mem[fr.new_labels]
  /\ OmpLoopEnded =>
       WrittenComplete(fr.mem[fr.new_labels], fr.mem[fr.labels], fr.mem[fr.active])
  /\ par_pc = "ocopy" => fr.mem[fr.labels] = fr.mem[fr.new_labels]

\* The third round of the sequential kernel has ended: it skipped a vertex
\* and lowered another, and the buffer it wrote is the one it was given
\* uninitialised.
C26_Witness ==
  /\ SeqRoundEnd /\ seq_rounds = 2 /\ seq_changed = 1
  /\ seq_new_labels = "aux"
  /\ \E u \in 0..G.n-1 : seq_mem[seq_active][u] = 0


\* ------------------------------------- sequential LP kernel: round by round
\* The vertices at distance at most r from v.
RECURSIVE Ball(_, _, _)
Ball(g, v, r) ==
  IF r = 0 THEN {v}
  ELSE LET B == Ball(g, v, r - 1) IN B \cup UNION {Neighbors(g, u) : u \in B}

\* The graph is a star centred at vertex 0 with at least one leaf.
IsStar0(g) ==
  /\ g.n >= 2
  /\ \A v \in 1..g.n-1 : Neighbors(g, v) = {0}

\* The label vector the sequential kernel held after k completed rounds.
SeqLabelsAfter(k) ==
  IF k = 0 THEN [i \in 0..G.n-1 |-> i] ELSE trace.seq[k].labels

\* C27: after r completed rounds of the sequential kernel labels[v] is the
\* lowest vertex id at distance at most r from v; on a star centred at 0
\* every label is 0 from the end of the first round on; the kernel goes on
\* after every round that lowered a label and stops after the first round
\* that lowered none.
C27_LabelsAfterRounds ==
  /\ seq_pc \in {"while", "for", "exit"} =>
       /\ Len(trace.seq) = seq_rounds
       /\ \A v \in 0..G.n-1 :
            seq_mem[seq_labels][v] = Min(Ball(G, v, seq_rounds))
       /\ IsStar0(G) /\ seq_rounds >= 1 =>
            \A v \in 0..G.n-1 : seq_mem[seq_labels][v] = 0
       /\ \A k \in 1..seq_rounds-1 : SeqLabelsAfter(k) # SeqLabelsAfter(k - 1)
  /\ seq_pc = "for" /\ seq_rounds >= 1 =>
       SeqLabelsAfter(seq_rounds) # SeqLabelsAfter(seq_rounds - 1)
  /\ seq_pc = "exit" =>
       /\ seq_rounds >= 1
       /\ SeqLabelsAfter(seq_rounds) = SeqLabelsAfter(seq_rounds - 1)

\* The kernel has left its loop after four rounds on a graph of four
\* vertices: three rounds lowered a label, the fourth none.
C27_Witness ==
  /\ seq_pc = "exit" /\ seq_rounds = 4 /\ G.n = 4
  /\ \A v \in 0..G.n-1 : seq_mem[seq_labels][v] = 0


\* ------------------------------- frontier pool against sequential kernel
\* Both kernels have left their round loops.
BothFinished == par_pc = "freturned" /\ seq_pc \in {"exit", "done"}

\* Round k of the frontier pool wrote the label buffer and built the next
\* frontier that round k of the sequential kernel wrote and built.
SameRound(k) == trace.pool[k] = trace.seq[k]

\* C28: on the same graph, for 1 and 2 workers and every interleaving, each
\* round of the frontier pool leaves the label buffer and the next frontier
\* that the same round of the sequential kernel leaves, and the two kernels
\* run the same number of rounds.
C28_PoolRefinesSequential ==
  /\ \A k \in 1..Len(trace.pool) : k <= Len(trace.seq) => SameRound(k)
  /\ BothFinished => Len(trace.pool) = Len(trace.seq)


\* ------------------------------------------------------------ BFS kernel
\* The number of components whose lowest vertex is lower than the lowest
\* vertex of v's component.
ComponentsBefore(g, v) ==
  Cardinality({C \in Components(g) : Min(C) < CompMin(g, v)})

\* The BFS kernel is inside its call or has returned.
BfsCalled == bfs_pc \in {"for", "while", "done"}

\* C29: the BFS kernel numbers the components in the order of their lowest
\* vertex: a vertex that has a label holds the number of components whose
\* lowest vertex is lower than that of its own component, and on return
\* every vertex has one.
C29_BfsNumbersByLowestVertex ==
  BfsCalled =>
    /\ \A v \in 0..G.n-1 :
         ~Unvisited(bfs_labels[v]) => bfs_labels[v] = ComponentsBefore(G, v)
    /\ bfs_pc = "done" => \A v \in 0..G.n-1 : bfs_labels[v] = ComponentsBefore(G, v)

\* BFS returned on four vertices in three components: vertex 3 belongs to
\* the component of vertex 1 and is numbered 1, vertex 2 is alone and
\* numbered 2.
C29_Witness ==
  /\ bfs_pc = "done" /\ G.n = 4
  /\ Cardinality(Components(G)) = 3
  /\ bfs_labels[3] = 1 /\ bfs_labels[2] = 2

\* C30: in every state of a call of the BFS kernel 0 <= front <= back <= n;
\* the vertices enqueued so far in the call are pairwise distinct (so at
\* most n of them) and are exactly the vertices that have a label; the
\* queue holds the last `back` of them in its first `back` entries, and on
\* return every vertex has been enqueued once.
C30_BfsQueueBound ==
  /\ bfs_pc = "entry" => bfs_front = 0 /\ bfs_back = 0
  /\ BfsCalled =>
       LET enq == trace.enq IN
       /\ 0 <= bfs_front /\ bfs_front <= bfs_back /\ bfs_back <= G.n
       /\ Len(enq) <= G.n
       /\ \A i, j \in 1..Len(enq) : i # j => enq[i] # enq[j]
       /\ {enq[i] : i \in 1..Len(enq)} = {v \in 0..G.n-1 : ~Unvisited(bfs_labels[v])}
       /\ bfs_back <= Len(enq)
       /\ bfs_pc = "while" =>
            Enqueued(bfs_queue, 0, bfs_back) = SubSeq(enq, Len(enq) - bfs_back + 1, Len(enq))
       /\ bfs_pc = "done" => Len(enq) = G.n

\* The queue of a component of four vertices is full: back = n, and the
\* last vertex is still to be dequeued.
C30_Witness ==
  /\ bfs_pc = "while" /\ G.n = 4
  /\ bfs_back = 4 /\ bfs_front = 3
  /\ Len(trace.enq) = 4


\* ------------------------------------------------------- Afforest kernel
\* The kernel has returned from a call on a graph with vertices.
AfReturned == par_pc = "areturned" /\ G.n > 0

\* C31: on return of the Afforest kernel every label is a root (the label of
\* a label is itself) and two vertices have the same label exactly when
\* they are connected.
C31_AfforestLabelsAreRoots ==
  AfReturned =>
    /\ \A v \in 0..G.n-1 : af.labels[af.labels[v]] = af.labels[v]
    /\ \A u, v \in 0..G.n-1 :
         (af.labels[u] = af.labels[v]) <=> (v \in Component(G, u))

\* The vertex reached from v by following parent for at most k links.
RECURSIVE AfAncestor(_, _, _)
AfAncestor(parent, v, k) ==
  IF k = 0 \/ parent[v] = v THEN v ELSE AfAncestor(parent, parent[v], k - 1)

\* The workers are running and the parent array is live.
AfRunning == par_pc = "arunning"

\* C32: in every state of the Afforest workers parent[v] <= v and parent[v]
\* lies in v's component, for every v; following parent from v reaches a
\* root within n links (no cycle but the self-loop of a root); and a worker
\* inside the loop of uf_find holds p < x, and pp < p before its store, so
\* every turn of the loop moves x strictly down and uf_find terminates.
C32_ParentNeverAbove ==
  AfRunning =>
    /\ \A v \in 0..G.n-1 :
         /\ af.parent[v] >= 0 /\ af.parent[v] <= v
         /\ af.parent[v] \in Component(G, v)
         /\ LET r == AfAncestor(af.parent, v, G.n) IN af.parent[r] = r
    /\ \A t \in Threads :
         /\ thr[t].pc \in {"find_load2", "find_store"} => thr[t].p < thr[t].x
         /\ thr[t].pc = "find_store" => thr[t].pp < thr[t].p

\* One worker is about to link a root while another is about to store a
\* grandparent, in a forest that already holds a vertex two links below
\* its root.
C32_Witness ==
  /\ AfRunning
  /\ \E a, b \in Threads :
       /\ a # b
       /\ thr[a].pc = "union_cas" /\ ~thr[a].waiting
       /\ thr[b].pc = "find_store" /\ ~thr[b].waiting
  /\ \E v \in 0..G.n-1 : af.parent[af.parent[v]] # af.parent[v]


\* ------------------------------------------------------- builder, ingest
\* One iteration of the ingest loop: from a state inside the loop to the
\* next.
IngestStep == ld.pc = "read" /\ ld'.pc = "read" /\ ld'.k = ld.k + 1

\* The records the iteration appended to the edge buffer.
Appended == SubSeq(ld'.E, Len(ld.E) + 1, Len(ld'.E))

\* What an iteration of the ingest loop does with its record (i, j), when
\* `mirrored` tells whether reverse records are asked for: nothing when the
\* record is out of range; else it appends (i, j), followed by (j, i) exactly
\* when mirrored and i != j.
IngestAppends(mirrored) ==
  LET i == ld'.last[1]
      j == ld'.last[2]
      inrange == 0 <= i /\ i < ld.n /\ 0 <= j /\ j < ld.n
  IN /\ SubSeq(ld'.E, 1, Len(ld.E)) = ld.E
     /\ ld'.m = Len(ld'.E)
     /\ ~inrange => Appended = <<>>
     /\ inrange /\ mirrored /\ i # j =>
          Appended = <<[u |-> i, v |-> j], [u |-> j, v |-> i]>>
     /\ inrange /\ ~(mirrored /\ i # j) => Appended = <<[u |-> i, v |-> j]>>

\* C33 as stated: every iteration of the ingest loop appends its in-range
\* record (i, j), and the reverse record (j, i) exactly when symmetrize is
\* set and i != j; with symmetrize unset only the records as given are
\* stored.
C33_ReverseWhenSymmetrize ==
  [][IngestStep => IngestAppends(ld.symmetrize)]_vars

\* C33, amended: every iteration of the ingest loop appends its in-range
\* record (i, j), and the reverse record (j, i) exactly when i != j and
\* symmetrize is set or the file's banner declares the matrix symmetric,
\* skew-symmetric or hermitian; with symmetrize unset and a general file
\* only the records as given are stored.
C33_ReverseWhenMirrored ==
  [][IngestStep => IngestAppends(ld.symmetrize \/ ld.symmetric_in_file)]_vars

\* The loop has read an edge, a self-loop and an out-of-range record from a
\* symmetric file with symmetrize unset: the edge is stored in both
\* directions, the self-loop once.
C33_Witness ==
  /\ ld.pc = "read" /\ ld.k = 3 /\ ld.skipped = 1
  /\ ~ld.symmetrize /\ ld.symmetric_in_file
  /\ ld.E = <<[u |-> 0, v |-> 1], [u |-> 1, v |-> 0], [u |-> 2, v |-> 2]>>
  /\ ld.last = <<3, 0>>


\* ---------------------------------------------------------- empty graph
\* C34: on the empty graph (n = 0, m = 0) every kernel returns with the
\* caller's label array still the caller's (not released) and with no
\* element written; the workers of the thread-pool kernel have all left the
\* round loop when it returns.
C34_EmptyGraphLeavesLabelsAlone ==
  G.n = 0 =>
    /\ seq_pc = "done" => seq_heap["caller"] = "caller" /\ seq_frees["caller"] = 0
    /\ bfs_pc = "done" => bfs_labels = <<>>
    /\ par_pc = "returned" =>
         par_labels = <<>> /\ \A t \in Threads : thr[t].pc \in {"done", "joined"}
    /\ par_pc = "areturned" => af.heap.caller = "caller" /\ af.labels = <<>>


\* ------------------------------------------- OpenMP LP kernel, chunk of 1
\* A parallel loop of the OpenMP LP kernel with chunk_size = 1 has handed out
\* every vertex.
LoopHandedOut ==
  /\ par_pc = "running" /\ chunk_size = 1
  /\ trace.owner # <<>> /\ loop_pending = {}

\* The vertices handed to worker t in this round.
OwnedBy(t) == {v \in 0..G.n-1 : trace.owner[v] = t}

\* C35: with chunk_size = 1 the OpenMP LP kernel distributes the vertices
\* statically: in every round the vertices of each thread form one
\* contiguous block, the blocks follow the order of the threads, and every
\* vertex goes to the thread it went to in the round before.
C35_ChunkOneIsStatic ==
  LoopHandedOut =>
    /\ \A t \in Threads : \A a, b \in OwnedBy(t) :
         \A v \in 0..G.n-1 : a < v /\ v < b => v \in OwnedBy(t)
    /\ \A u, v \in 0..G.n-1 : u < v => trace.owner[u] <= trace.owner[v]
    /\ trace.owner_prev # <<>> => trace.owner = trace.owner_prev


\* ------------------------------------------ thread pool, the work counter
\* A worker that has made its fetch_add with start >= n in this round and
\* waits for, or walks to, the second barrier.
LeftWorkLoop(w) == w.pc \in {"mark", "bar2"} \/ (w.pc = "check" /\ w.waiting)

\* The work phase of a round: every worker is past the first barrier and
\* the second has not opened.
WorkPhase == \A t \in Threads : InWorkLoop(thr[t]) \/ LeftWorkLoop(thr[t])

\* (ceil(n/c) + T) * c
CounterBound == (CeilDiv(G.n, chunk_size) + num_threads) * chunk_size

\* C36: dynamic mode of the thread-pool kernel, when (ceil(n/c) + T) * c <=
\* INT_MAX. In the work phase of a round next_vertex = c * (s + f), where f
\* is the number of workers that have left the work loop (one fetch_add
\* with start >= n each), s <= ceil(n/c) is the number of chunks handed out,
\* and s = ceil(n/c) once a worker has left; outside the work phase
\* next_vertex is 0 or (ceil(n/c) + T) * c, and it is the latter at the end
\* of every round; so 0 <= next_vertex <= (ceil(n/c) + T) * c in every
\* state: the counter does not wrap.
C36_CounterNeverWraps ==
  par_pc = "running" /\ chunking_enabled /\ CounterBound <= INT_MAX =>
    LET f == Cardinality({t \in Threads : LeftWorkLoop(thr[t])})
        s == next_vertex \div chunk_size - f
    IN /\ 0 <= next_vertex /\ next_vertex <= CounterBound
       /\ WorkPhase =>
            /\ next_vertex = chunk_size * (s + f)
            /\ 0 <= s /\ s <= CeilDiv(G.n, chunk_size)
            /\ f > 0 => s = CeilDiv(G.n, chunk_size)
       /\ ~WorkPhase => next_vertex \in {0, CounterBound}
       /\ RoundWorkDone => next_vertex = CounterBound

\* The end of a round of two workers with the chunk near 2^29: one fetch
\* handed out the whole graph, two more found no work, and next_vertex is
\* 3 * 536870910.
C36_Witness ==
  /\ RoundWorkDone /\ chunk_size = HugeChunk
  /\ num_threads = 2 /\ G.n = 3
  /\ next_vertex = 1610612730


\* -------------------------------------------------- builder, edge buffer
\* C37: while the edge buffer is filled, sorted and deduplicated the number m
\* of records in it is at most the capacity it was allocated with, which is
\* 2 * nz when reverse records are appended (symmetrize set or a symmetric
\* file) and nz otherwise; m counts at most two records, or one, per record
\* read and kept; and dedup_edges leaves at most as many records as the
\* ingest loop stored.
C37_EdgeBufferWithinCapacity ==
  LET mirrored == ld.symmetrize \/ ld.symmetric_in_file IN
  /\ ld.pc \in {"read", "sort", "dedup"} =>
       /\ ld.m = Len(ld.E)
       /\ ld.cap = (IF mirrored THEN 2 * ld.nz ELSE ld.nz)
       /\ ld.m <= (IF mirrored THEN 2 ELSE 1) * (ld.k - ld.skipped)
       /\ ld.k <= ld.nz
       /\ ld.m <= ld.cap
  /\ ld.pc \notin {"idle", "read"} => ld.m <= Len(ld.ingested)

\* Three copies of one edge read from a symmetric file with symmetrize
\* unset filled the doubled buffer to its capacity of six records, and
\* deduplication left two.
C37_Witness ==
  /\ ld.pc = "alloc_row"
  /\ ~ld.symmetrize /\ ld.symmetric_in_file
  /\ ld.cap = 6 /\ Len(ld.ingested) = 6
  /\ ld.m = 2

====
